---- MODULE Spec2Model ----
(***************************************************************************)
(* The Supervisor's application lifecycle engine (supervisor/app.c): one   *)
(* application object, its configured and auxiliary process containers,    *)
(* its kill timer, the freeze cgroup of the app and the child-exit         *)
(* notifications on their way to app_SigChildHandler.                      *)
(***************************************************************************)
EXTENDS Integers, Sequences, FiniteSets, TLC

\* Bounds of the model.
MaxProcs == 2      \* configured processes of the app: 0..MaxProcs
MaxAux == 1        \* auxiliary process containers alive at one time
MaxFork == 1       \* processes alive at one time that a process of the app forked

CIds == 1..(MaxProcs + MaxAux)

\* Pids: the process a container starts gets the pid of the container's slot, a
\* forked process one of the pids after those.
ForkPids == (MaxProcs + MaxAux + 1)..(MaxProcs + MaxAux + MaxFork)
Pids == CIds \cup ForkPids

LE_FAULT == -1     \* le_result_t value cgrp_SendSig returns on error

VARIABLES
    sandboxed,     \* App_t.sandboxed
    state,         \* App_t.state
    killTimer,     \* App_t.killTimer: "NULL", "IDLE" (created, not running), "ARMED"
    procs,         \* App_t.procs: container ids in config-declaration order
    auxProcs,      \* App_t.auxProcs: container ids in creation order
    cont,          \* the process containers (and the executor state behind procRef)
    cgroup,        \* pids in the app's freeze cgroup
    killed,        \* pids of the cgroup with a SIGKILL pending
    forked,        \* pids of the cgroup that are not children of the Supervisor
    frozen,        \* the freeze cgroup is frozen
    zombies,       \* pids of exited children whose SIGCHLD has not been handled yet
    calls,         \* how far the calls made so far follow create; start; stop
    started,       \* what the latest start() that passed the state check did
    host,          \* what app_Create and app_Delete leave in the system: the object
                   \* they build, the pool blocks, MAC rules, limits, runtime area
    thr,           \* the thread library of a process: thread objects, ThreadRefMap,
                   \* ThreadObjList, destructor objects, where each thread stands
    last           \* the last step: the handler, what it returned, what it broadcast

vars == <<sandboxed, state, killTimer, procs, auxProcs, cont, cgroup, killed,
          forked, frozen, zombies, calls, started, host, thr, last>>

\* The fields of the application object and what the operating system holds of it.
appVars == <<sandboxed, state, killTimer, procs, auxProcs, cont, cgroup, killed,
             forked, frozen, zombies>>

FaultActions == {"NONE", "IGNORE", "RESTART_PROC", "RESTART_APP", "STOP_APP", "REBOOT"}
WatchdogActions == {"NOT_FOUND", "ERROR", "HANDLED", "IGNORE", "STOP", "RESTART",
                    "RESTART_APP", "STOP_APP", "REBOOT"}
ExitStatuses == {"ok", "fault"}

\* CreateProcContainer: a fresh container, no pid, no handlers.
CreateProcContainer ==
    [pid |-> 0, stopping |-> FALSE, stopHandler |-> "NULL",
     externStopHandler |-> "NULL", externContextPtr |-> "NULL"]

\* proc_GetState: the executor is RUNNING from proc_Start until its SIGCHLD is handled.
proc_GetState(c) == IF c.pid = 0 THEN "PROC_STATE_STOPPED" ELSE "PROC_STATE_RUNNING"

InList(list, c) == \E i \in 1..Len(list) : list[i] = c

\* The observation record a handler starts from.
Obs(op) == [op |-> op, res |-> "LE_OK", sigs |-> <<>>, tried |-> <<>>,
            launched |-> <<>>, stops |-> 0, numSig |-> 0, pid |-> 0,
            act |-> "NONE", pre |-> state, tmp |-> "ok", cgFault |-> FALSE,
            events |-> <<>>, name |-> 0, setPath |-> <<>>, reset |-> {}]

\* The machine state a handler works on.
Cur(op) == [sandboxed |-> sandboxed, state |-> state, killTimer |-> killTimer,
            procs |-> procs, auxProcs |-> auxProcs, cont |-> cont,
            cgroup |-> cgroup, killed |-> killed, forked |-> forked,
            frozen |-> frozen, zombies |-> zombies,
            ob |-> Obs(op)]

Commit(m) ==
    /\ state' = m.state
    /\ killTimer' = m.killTimer
    /\ auxProcs' = m.auxProcs
    /\ cont' = m.cont
    /\ cgroup' = m.cgroup
    /\ killed' = m.killed
    /\ forked' = m.forked
    /\ frozen' = m.frozen
    /\ zombies' = m.zombies
    /\ last' = [op |-> m.ob.op, res |-> m.ob.res,
                sig |-> IF m.ob.sigs = <<>> THEN "none" ELSE m.ob.sigs[Len(m.ob.sigs)],
                kill |-> IF m.ob.sigs = <<>> THEN "none"
                         ELSE IF m.ob.cgFault THEN "LE_FAULT"
                         ELSE IF m.ob.numSig = 0 THEN "LE_NOT_FOUND" ELSE "LE_OK"]
    /\ UNCHANGED <<sandboxed, procs, host, thr>>

----------------------------------------------------------------------------
\* The cgroup service's answers to one KillAppProcs call: cgrp_SendSig may fail.
KillEnvs == [sendFault : BOOLEAN]

\* A KillAppProcs that sends SIGKILL whatever the kill type.
KillSig_AlwaysHard(killType) == "SIGKILL"

KillSig(killType) == IF killType = "KILL_SOFT" THEN "SIGTERM" ELSE "SIGKILL"

\* The loop of KillAppProcs over appRef->procs.
MarkStopping(m) ==
    [c \in CIds |->
        IF InList(m.procs, c) /\ proc_GetState(m.cont[c]) # "PROC_STATE_STOPPED"
        THEN [m.cont[c] EXCEPT !.stopHandler = "NULL", !.stopping = TRUE]
        ELSE m.cont[c]]

\* cgrp_SendSig: every member of the freeze cgroup gets the signal.
cgrp_SendSig(m, sig, fault) ==
    IF fault THEN [m |-> m, n |-> LE_FAULT]
    ELSE [m |-> [m EXCEPT !.killed = IF sig = "SIGKILL" THEN @ \cup m.cgroup ELSE @],
          n |-> Cardinality(m.cgroup)]

\* A KillAppProcs that does not tell an empty cgroup from a signalled one.
KillAppProcs_NoEmptyCheck(m, killType, env) ==
    LET m1 == [m EXCEPT !.cont = MarkStopping(m)]
        sent == cgrp_SendSig(m1, KillSig(killType), env.sendFault)
        m2 == [sent.m EXCEPT !.ob.sigs = Append(@, KillSig(killType)),
                             !.ob.numSig = sent.n,
                             !.ob.cgFault = env.sendFault]
    IN  [m |-> m2, res |-> "LE_OK"]

KillAppProcs(m, killType, env) ==
    LET m1 == [m EXCEPT !.frozen = TRUE]
        m2 == [m1 EXCEPT !.cont = MarkStopping(m1)]
        sent == cgrp_SendSig(m2, KillSig(killType), env.sendFault)
        m3 == [sent.m EXCEPT !.ob.sigs = Append(@, KillSig(killType)),
                             !.ob.numSig = sent.n,
                             !.ob.cgFault = env.sendFault]
        m4 == [m3 EXCEPT !.frozen = FALSE]
    IN  IF sent.n = LE_FAULT THEN [m |-> m3, res |-> "LE_NOT_FOUND"]
        ELSE IF sent.n = 0 THEN [m |-> m4, res |-> "LE_NOT_FOUND"]
        ELSE [m |-> m4, res |-> "LE_OK"]

\* le_timer_Start on the kill timer, created on first use.
StartKillTimer(m) == [m EXCEPT !.killTimer = "ARMED"]

\* le_timer_Stop on the kill timer, if it was ever created.
StopKillTimer(m) == [m EXCEPT !.killTimer = IF @ = "NULL" THEN "NULL" ELSE "IDLE"]

StopRejected(m) == m.state = "STOPPED"

\* An app_Stop that takes the app for stopped as soon as it has signalled it.
app_Stop_Synchronous(m, env) ==
    LET m0 == [m EXCEPT !.ob.stops = @ + 1]
        k == KillAppProcs(m0, "KILL_SOFT", env)
    IN  IF StopRejected(m0) THEN m0 ELSE [k.m EXCEPT !.state = "STOPPED"]

app_Stop(m, env) ==
    LET m0 == [m EXCEPT !.ob.stops = @ + 1]
        k == KillAppProcs(m0, "KILL_SOFT", env)
    IN  IF StopRejected(m0) THEN m0
        ELSE IF k.res = "LE_NOT_FOUND" THEN [k.m EXCEPT !.state = "STOPPED"]
        ELSE StartKillTimer(k.m)

----------------------------------------------------------------------------
\* The pids in use: a pid is handed out again only once its process was reaped.
UsedPids(m) == m.cgroup \cup m.zombies

\* proc_Start: fork the process into the app's freeze cgroup. It fails when the
\* executor says so (ok = FALSE) or when the process is already running.
proc_Start(m, c, ok) ==
    IF ~ok \/ proc_GetState(m.cont[c]) = "PROC_STATE_RUNNING"
    THEN [m |-> [m EXCEPT !.ob.tried = Append(@, c)], res |-> "LE_FAULT"]
    ELSE [m |-> [m EXCEPT !.cont[c].pid = c,
                          !.cgroup = @ \cup {c},
                          !.ob.tried = Append(@, c),
                          !.ob.launched = Append(@, c)],
          res |-> "LE_OK"]

\* proc_Stopping: the next SIGCHLD of the process is expected.
proc_Stopping(m, c) == [m EXCEPT !.cont[c].stopping = TRUE]

\* kill_Hard: SIGKILL to one pid; nothing happens to a process that has exited.
kill_Hard(m, pid) == [m EXCEPT !.killed = IF pid \in m.cgroup THEN @ \cup {pid} ELSE @]

\* proc_SigChildHandler: the executor forgets the pid and reports the fault action:
\* NONE for a deliberate kill or a clean exit, else the configured one.
proc_SigChildHandler(m, c, status, cfgFa) ==
    [m |-> [m EXCEPT !.cont[c].pid = 0, !.cont[c].stopping = FALSE],
     fa |-> IF m.cont[c].stopping \/ status = "ok" THEN "NONE" ELSE cfgFa]

StopProc(m, c) == kill_Hard(proc_Stopping(m, c), m.cont[c].pid)

\* Processes of the cgroup exit: a child of the Supervisor is left to be reaped.
EnvExit(m, pids) ==
    LET gone == pids \cap m.cgroup
    IN  [m EXCEPT !.cgroup = @ \ gone,
                  !.forked = @ \ gone,
                  !.killed = @ \ gone,
                  !.zombies = @ \cup (gone \ m.forked)]

RECURSIVE FirstWithPid(_, _, _, _)
FirstWithPid(m, list, i, pid) ==
    IF i > Len(list) THEN 0
    ELSE IF m.cont[list[i]].pid = pid THEN list[i]
    ELSE FirstWithPid(m, list, i + 1, pid)

FindProcContainerInList(m, list, pid) == FirstWithPid(m, list, 1, pid)

FindProcContainer(m, pid) ==
    IF FindProcContainerInList(m, m.procs, pid) # 0
    THEN FindProcContainerInList(m, m.procs, pid)
    ELSE FindProcContainerInList(m, m.auxProcs, pid)

HasRunningProc(m) == m.cgroup # {}

----------------------------------------------------------------------------
\* The sandbox /tmp of app_Start: CreateTmpFs, then CreateDefaultTmpLinks.
TmpResults(sb) == IF sb THEN {"ok", "tmpfsFail", "linkFail"} ELSE {"ok"}

\* An app_Start without the check of the state.
StartRejected_Never(m) == FALSE

StartRejected(m) == m.state = "RUNNING"

\* The loop of app_Start over appRef->procs, from index i on; failSet holds the
\* indices whose proc_Start the executor fails.
\* A loop that goes on to the next process when one fails to start.
RECURSIVE StartProcs_SkipFailed(_, _, _)
StartProcs_SkipFailed(m, i, failSet) ==
    IF i > Len(m.procs) THEN [m |-> m, res |-> "LE_OK"]
    ELSE StartProcs_SkipFailed(proc_Start(m, m.procs[i], i \notin failSet).m,
                               i + 1, failSet)

RECURSIVE StartProcs(_, _, _)
StartProcs(m, i, failSet) ==
    IF i > Len(m.procs) THEN [m |-> m, res |-> "LE_OK"]
    ELSE LET r == proc_Start(m, m.procs[i], i \notin failSet)
         IN  IF r.res # "LE_OK" THEN [m |-> r.m, res |-> "LE_FAULT"]
             ELSE StartProcs(r.m, i + 1, failSet)

\* What app_Start does once a proc_Start has failed.
StartFailed(m, env) == [app_Stop(m, env) EXCEPT !.ob.res = "LE_FAULT"]

\* What app_Start does once the sandbox /tmp could not be built.
TmpFailed(m) == [m EXCEPT !.ob.res = "LE_FAULT"]

app_Start(m, tmpRes, failSet, exited, env) ==
    LET m1 == [m EXCEPT !.state = "RUNNING", !.ob.tmp = tmpRes]
        r == StartProcs(m1, 1, failSet)
    IN  IF StartRejected(m) THEN [m EXCEPT !.ob.res = "LE_FAULT"]
        ELSE IF tmpRes # "ok" THEN TmpFailed(m1)
        ELSE IF r.res # "LE_OK" THEN StartFailed(EnvExit(r.m, exited), env)
        ELSE r.m

\* HardKillApp: the kill timer's handler.
HardKillApp(m, env) == KillAppProcs(m, "KILL_HARD", env).m

----------------------------------------------------------------------------
\* app_WatchdogTimeoutHandler
\* A lookup that never reads the app's watchdog action.
ResolveWatchdogAction_ProcOnly(procAct, appAct) == procAct

ResolveWatchdogAction(procAct, appAct) ==
    IF procAct \in {"NOT_FOUND", "ERROR"} THEN appAct ELSE procAct

WatchdogRestart(m, c) == StopProc([m EXCEPT !.cont[c].stopHandler = "proc_Start"], c)

\* A handler that reports an unknown pid as handled.
app_WatchdogTimeoutHandler_UnknownHandled(m, pid, procAct, appAct) ==
    [m EXCEPT !.ob.pid = pid, !.ob.act = "HANDLED"]

app_WatchdogTimeoutHandler(m, pid, procAct, appAct) ==
    LET c == FindProcContainer(m, pid)
        a == ResolveWatchdogAction(procAct, appAct)
        m0 == [m EXCEPT !.ob.pid = pid]
    IN  IF c = 0 THEN [m0 EXCEPT !.ob.res = "LE_NOT_FOUND"]
        ELSE IF a \in {"NOT_FOUND", "RESTART"}
             THEN [WatchdogRestart(m0, c) EXCEPT !.ob.act = "HANDLED"]
        ELSE IF a = "STOP" THEN [StopProc(m0, c) EXCEPT !.ob.act = "HANDLED"]
        ELSE IF a \in {"IGNORE", "ERROR", "HANDLED"} THEN [m0 EXCEPT !.ob.act = "HANDLED"]
        ELSE [m0 EXCEPT !.ob.act = a]

----------------------------------------------------------------------------
\* app_SigChildHandler
CallStopHandler(m, c, ok) ==
    IF m.cont[c].stopHandler = "proc_Start" THEN proc_Start(m, c, ok)
    ELSE [m |-> m, res |-> "LE_OK"]

\* A switch that reports nothing when a restart fails.
HandleFaultAction_NoEscalation(m, c, fa, ok) ==
    IF fa = "NONE" THEN [CallStopHandler(m, c, ok).m EXCEPT !.ob.act = "IGNORE"]
    ELSE IF fa = "IGNORE" THEN [m EXCEPT !.ob.act = "IGNORE"]
    ELSE IF fa = "RESTART_PROC" THEN [proc_Start(m, c, ok).m EXCEPT !.ob.act = "IGNORE"]
    ELSE [m EXCEPT !.ob.act = fa]

\* The switch of app_SigChildHandler on the executor's fault action.
HandleFaultAction(m, c, fa, ok) ==
    IF fa = "NONE"
    THEN LET r == CallStopHandler(m, c, ok)
         IN  [r.m EXCEPT !.ob.act = IF r.res # "LE_OK" THEN "STOP_APP" ELSE "IGNORE"]
    ELSE IF fa = "IGNORE" THEN [m EXCEPT !.ob.act = "IGNORE"]
    ELSE IF fa = "RESTART_PROC"
    THEN LET r == proc_Start(m, c, ok)
         IN  [r.m EXCEPT !.ob.act = IF r.res # "LE_OK" THEN "STOP_APP" ELSE "IGNORE"]
    ELSE [m EXCEPT !.ob.act = fa]

\* The end of app_SigChildHandler: the app has stopped once its cgroup is empty.
\* A handler that forgets the kill timer when the app has stopped.
AppStoppedCheck_TimerLeft(m) ==
    IF ~HasRunningProc(m) THEN [m EXCEPT !.state = "STOPPED"] ELSE m

AppStoppedCheck(m) ==
    IF ~HasRunningProc(m) THEN [StopKillTimer(m) EXCEPT !.state = "STOPPED"] ELSE m

\* A call the handler makes, with the exit status and the context it passes.
Called(m, call, status, ctx) ==
    [m EXCEPT !.ob.events = Append(@, [call |-> call, status |-> status, ctx |-> ctx])]

\* The external stop handler of the container, if one is registered.
CallExternStopHandler(m, c, status) ==
    IF m.cont[c].externStopHandler # "NULL"
    THEN Called(m, m.cont[c].externStopHandler, status, m.cont[c].externContextPtr)
    ELSE m

app_SigChildHandler(m, pid, status, cfgFa, ok) ==
    LET c == FindProcContainer(m, pid)
        m0 == [m EXCEPT !.ob.pid = pid, !.ob.act = "IGNORE"]
        m1 == Called(CallExternStopHandler(m0, c, status),
                     "proc_SigChildHandler", status, "NULL")
        p == proc_SigChildHandler(m1, c, status, cfgFa)
    IN  IF c = 0 THEN AppStoppedCheck(m0)
        ELSE AppStoppedCheck(HandleFaultAction(p.m, c, p.fa, ok))

----------------------------------------------------------------------------
\* The ad-hoc process API.
AuxIds == (MaxProcs + 1)..(MaxProcs + MaxAux)

FreeAuxIds(m) == {c \in AuxIds : ~InList(m.auxProcs, c) /\ c \notin UsedPids(m)}

\* GetProcContainer: the configured container of that name (a configured process
\* is named by its place in the config), 0 for none or for a null name.
RECURSIVE FirstWithName(_, _, _)
FirstWithName(list, i, name) ==
    IF i > Len(list) THEN 0
    ELSE IF list[i] = name THEN list[i]
    ELSE FirstWithName(list, i + 1, name)

\* A lookup that takes the first configured process for any name.
GetProcContainer_First(m, name) ==
    IF name = 0 \/ Len(m.procs) = 0 THEN 0 ELSE m.procs[1]

GetProcContainer(m, name) == IF name = 0 THEN 0 ELSE FirstWithName(m.procs, 1, name)

\* Executable paths as sequences of segments; the empty one is the null path.
ExecPaths == {<<>>, <<"bin", "sleep">>}

\* le_path_GetBasenamePtr: what follows the last separator.
le_path_GetBasenamePtr(path) == path[Len(path)]

\* An app_CreateProc that queues every new container on the configured list.
app_CreateProc_IntoProcs(m, name, execPath, ok, c) ==
    IF execPath = <<>> \/ ~ok THEN [m EXCEPT !.ob.res = "NULL"]
    ELSE [m EXCEPT !.cont[c] = CreateProcContainer,
                   !.procs = Append(@, c),
                   !.ob.pid = c,
                   !.ob.setPath = execPath]

\* app_CreateProc; name 0 is the null name, ok says whether proc_Create and
\* proc_SetExecPath succeed, c is the container allocated. The container returned
\* is ob.pid, the name given to a new process ob.name, the path given to
\* proc_SetExecPath ob.setPath.
app_CreateProc(m, name, execPath, ok, c) ==
    LET found == GetProcContainer(m, name)
        procNameToUse == IF name = 0 THEN le_path_GetBasenamePtr(execPath) ELSE name
    IN  IF found = 0
        THEN IF execPath = <<>> \/ ~ok THEN [m EXCEPT !.ob.res = "NULL"]
             ELSE [m EXCEPT !.cont[c] = CreateProcContainer,
                            !.auxProcs = Append(@, c),
                            !.ob.pid = c,
                            !.ob.name = procNameToUse,
                            !.ob.setPath = execPath]
        ELSE IF proc_GetState(m.cont[found]) = "PROC_STATE_RUNNING"
             THEN [m EXCEPT !.ob.res = "NULL"]
        ELSE IF execPath # <<>> /\ ~ok THEN [m EXCEPT !.ob.res = "NULL"]
        ELSE [m EXCEPT !.ob.pid = found, !.ob.setPath = execPath]

app_StartProc(m, c, ok) ==
    IF proc_GetState(m.cont[c]) = "PROC_STATE_STOPPED"
    THEN LET r == proc_Start(m, c, ok) IN [r.m EXCEPT !.ob.res = r.res]
    ELSE m

RemoveFromList(list, c) == SelectSeq(list, LAMBDA x : x # c)

\* The external stop handlers a client registers, with their context.
StopHandlerRegs == {<<"NULL", "NULL">>, <<"handler", "ctxA">>, <<"handler", "ctxB">>}

app_SetProcStopHandler(m, c, stopHandler, stopHandlerContextPtr) ==
    [m EXCEPT !.cont[c].externStopHandler = stopHandler,
              !.cont[c].externContextPtr = stopHandlerContextPtr]

\* The overrides of a configured process that app_DeleteProc has the executor reset.
ProcOverrides == {"StdIn", "StdOut", "StdErr", "ExecPath", "Priority", "Args", "FaultAction"}

\* An app_DeleteProc that leaves a running process running.
app_DeleteProc_NoStop(m, c) ==
    IF InList(m.procs, c)
    THEN [m EXCEPT !.cont[c].externStopHandler = "NULL",
                   !.cont[c].externContextPtr = "NULL",
                   !.ob.reset = ProcOverrides]
    ELSE [m EXCEPT !.auxProcs = SelectSeq(@, LAMBDA x : x # c),
                   !.cont[c] = CreateProcContainer]

app_DeleteProc(m, c) ==
    LET m1 == IF proc_GetState(m.cont[c]) = "PROC_STATE_RUNNING" THEN StopProc(m, c) ELSE m
    IN  IF InList(m.procs, c)
        THEN [m1 EXCEPT !.cont[c].externStopHandler = "NULL",
                        !.cont[c].externContextPtr = "NULL",
                        !.ob.reset = ProcOverrides]
        ELSE [m1 EXCEPT !.auxProcs = RemoveFromList(@, c),
                        !.cont[c] = CreateProcContainer]

----------------------------------------------------------------------------
\* The construction and the teardown of the application object.

\* The size of App_t.supplementGids, scaled down.
LIMIT_MAX_NUM_SUPPLEMENTARY_GROUPS == 2
\* Mounts stacked on one destination of the runtime area.
MaxMounts == 4

AppName == "A"

\* What a pool block holds of the fields app_Create never writes: whatever the
\* block held before (le_mem_ForceAlloc does not clear it).
JunkCounts == {0, LIMIT_MAX_NUM_SUPPLEMENTARY_GROUPS,
               LIMIT_MAX_NUM_SUPPLEMENTARY_GROUPS + 1}
JunkGid == -1

le_mem_ForceAlloc(junk) ==
    [sandboxed |-> FALSE, uid |-> JunkGid, gid |-> JunkGid,
     supplementGids |-> [i \in 1..LIMIT_MAX_NUM_SUPPLEMENTARY_GROUPS |-> JunkGid],
     numSupplementGids |-> junk, procs |-> <<>>, auxProcs |-> <<>>,
     killTimer |-> "NULL"]

\* The ids the user database gives the app's user and the k-th configured group.
user_GetIDs == [uid |-> 1000, gid |-> 1000]
user_CreateGroup(k) == 2000 + k

\* The steps of app_Create that can fail, and the iteration a failure hits.
FailSteps == {"none", "cfgPath", "userName", "userIds", "groupName", "group",
              "installDir", "workingDir", "procPath", "proc", "resLim",
              "device", "area"}
NoFail == [step |-> "none", at |-> 1]

\* The loop of CreateSupplementaryGroups from its i-th iteration (i counts from 0
\* as in the code; the i-th iteration reads the (i+1)-th configured group).
RECURSIVE GroupsFrom(_, _, _, _)
GroupsFrom(app, groups, fail, i) ==
    IF i >= LIMIT_MAX_NUM_SUPPLEMENTARY_GROUPS
    THEN [res |-> "LE_OK", app |-> [app EXCEPT !.numSupplementGids = i + 1]]
    ELSE IF fail.step \in {"groupName", "group"} /\ fail.at = i + 1
    THEN [res |-> "LE_FAULT", app |-> app]
    ELSE LET stored == [app EXCEPT !.supplementGids[i + 1] = user_CreateGroup(i + 1)]
         IN  IF i + 1 >= groups
             THEN [res |-> "LE_OK", app |-> [stored EXCEPT !.numSupplementGids = i + 1]]
             ELSE IF i >= LIMIT_MAX_NUM_SUPPLEMENTARY_GROUPS - 1
             THEN [res |-> "LE_FAULT", app |-> stored]
             ELSE GroupsFrom(stored, groups, fail, i + 1)

CreateSupplementaryGroups(app, groups, fail) ==
    IF groups = 0
    THEN [res |-> "LE_OK", app |-> app]
    ELSE GroupsFrom(app, groups, fail, 0)

CreateUserAndGroups(app, cfg, fail) ==
    IF app.sandboxed
    THEN IF fail.step \in {"userName", "userIds"}
         THEN [res |-> "LE_FAULT", app |-> app]
         ELSE CreateSupplementaryGroups(
                  [app EXCEPT !.uid = user_GetIDs.uid, !.gid = user_GetIDs.gid],
                  cfg.groups, fail)
    ELSE [res |-> "LE_OK", app |-> [app EXCEPT !.uid = 0, !.gid = 0]]

\* app_GetSupplementaryGroups with a buffer of numGroups entries: the result
\* code, the gids copied and the count written back.
app_GetSupplementaryGroups(app, numGroups) ==
    IF numGroups >= app.numSupplementGids
    THEN [res |-> "LE_OK",
          groups |-> [i \in 1..app.numSupplementGids |->
                         IF i <= LIMIT_MAX_NUM_SUPPLEMENTARY_GROUPS
                         THEN app.supplementGids[i] ELSE JunkGid],
          numGroups |-> app.numSupplementGids]
    ELSE [res |-> "LE_OVERFLOW",
          groups |-> [i \in 1..numGroups |->
                         IF i <= LIMIT_MAX_NUM_SUPPLEMENTARY_GROUPS
                         THEN app.supplementGids[i] ELSE JunkGid],
          numGroups |-> app.numSupplementGids]

\* MAC labels and rules. A rule gives a subject label an access to an object label;
\* setting a rule replaces the rule the pair had.
smack_GetAppLabel(appName) == <<"app", appName>>
smack_GetAppAccessLabel(appName, mode) == <<"dir", appName, mode>>
devSmack_GetLabel(dev) == <<"dev", dev>>
FrameworkLabel == <<"framework">>
SyslogLabel == <<"syslog">>

smack_SetRule(rules, subject, access, object) ==
    {r \in rules : ~(r.subject = subject /\ r.object = object)}
        \cup {[subject |-> subject, access |-> access, object |-> object]}

smack_RevokeSubject(rules, subject) == {r \in rules : r.subject # subject}

permissionStr == <<"x", "w", "wx", "r", "rx", "rw", "rwx">>
NUM_PERMISSONS == Len(permissionStr)

RECURSIVE DirRulesFrom(_, _, _, _)
DirRulesFrom(rules, appName, appLabel, i) ==
    IF i > NUM_PERMISSONS THEN rules
    ELSE DirRulesFrom(smack_SetRule(rules, appLabel, permissionStr[i],
                                    smack_GetAppAccessLabel(appName, permissionStr[i])),
                      appName, appLabel, i + 1)

SetDefaultSmackRules(rules, appName, appLabel) ==
    LET dirs == DirRulesFrom(rules, appName, appLabel, 1)
        fw == smack_SetRule(dirs, FrameworkLabel, "w", appLabel)
        toFw == smack_SetRule(fw, appLabel, "rw", FrameworkLabel)
    IN  smack_SetRule(toFw, appLabel, "w", SyslogLabel)

\* The bindings of a config: the server app of each binding, "" for a binding to
\* a server that is not an app.
BindingCfgs == {<<>>, <<"", "srvA">>}

\* What a read through the iterator that SetSmackRulesForBindings has already
\* cancelled can do: fail, so that the loop ends after one pass without a rule,
\* or end the Supervisor.
DeadIterOutcomes == {"fails", "fatal"}

RECURSIVE BindingRulesFrom(_, _, _, _)
BindingRulesFrom(rules, bindings, appLabel, i) ==
    IF i > Len(bindings) THEN rules
    ELSE IF bindings[i] # ""
    THEN LET serverLabel == smack_GetAppLabel(bindings[i])
             out == smack_SetRule(rules, appLabel, "rw", serverLabel)
         IN  BindingRulesFrom(smack_SetRule(out, serverLabel, "rw", appLabel),
                              bindings, appLabel, i + 1)
    ELSE BindingRulesFrom(rules, bindings, appLabel, i + 1)

SetSmackRulesForBindings(rules, bindings, appLabel, dead) ==
    IF bindings = <<>>
    THEN [rules |-> rules, fatal |-> dead = "fatal"]
    ELSE [rules |-> BindingRulesFrom(rules, bindings, appLabel, 1), fatal |-> FALSE]

\* The calls SetSmackRulesForBindings makes on its iterator, in order. With no
\* binding the iterator is cancelled and the loop is entered all the same: its
\* read goes through the cancelled iterator, and if the Supervisor survives it
\* the walk to the next sibling and the second cancel do too.
RECURSIVE BindingsLoopOps(_, _)
BindingsLoopOps(bindings, i) ==
    <<"le_cfg_GetString">>
        \o (IF i < Len(bindings)
            THEN <<"le_cfg_GoToNextSibling">> \o BindingsLoopOps(bindings, i + 1)
            ELSE <<"le_cfg_GoToNextSibling", "le_cfg_CancelTxn">>)

BindingsTxnOps(bindings, dead) ==
    <<"le_cfg_CreateReadTxn", "le_cfg_GoToNode", "le_cfg_GoToFirstChild">>
        \o (IF bindings = <<>>
            THEN IF dead = "fatal"
                 THEN <<"le_cfg_CancelTxn", "le_cfg_GetString">>
                 ELSE <<"le_cfg_CancelTxn">> \o BindingsLoopOps(bindings, 1)
            ELSE BindingsLoopOps(bindings, 1))

\* The required devices of a config: the device file and the access asked for.
DeviceCfgs == {<<>>, <<[dev |-> "dev1", perm |-> "r"], [dev |-> "dev2", perm |-> "rw"]>>}

RECURSIVE DevicesFrom(_, _, _, _, _)
DevicesFrom(rules, devices, appLabel, fail, i) ==
    IF i > Len(devices) THEN [res |-> "LE_OK", rules |-> rules]
    ELSE IF fail.step = "device" /\ fail.at = i
    THEN [res |-> "LE_FAULT", rules |-> rules]
    ELSE DevicesFrom(smack_SetRule(rules, appLabel, devices[i].perm,
                                   devSmack_GetLabel(devices[i].dev)),
                     devices, appLabel, fail, i + 1)

SetDevicePermissions(rules, devices, appLabel, fail) ==
    DevicesFrom(rules, devices, appLabel, fail, 1)

CleanupAppSmackSettings(rules, appName) ==
    smack_RevokeSubject(rules, smack_GetAppLabel(appName))

SetSmackRules(rules, appName, cfg, env) ==
    LET appLabel == smack_GetAppLabel(appName)
        clean == CleanupAppSmackSettings(rules, appName)
        defaults == SetDefaultSmackRules(clean, appName, appLabel)
        bound == SetSmackRulesForBindings(defaults, cfg.bindings, appLabel, env.dead)
        devs == SetDevicePermissions(bound.rules, cfg.devices, appLabel, env.fail)
    IN  IF bound.fatal
        THEN [res |-> "FATAL", rules |-> bound.rules]
        ELSE devs

\* The runtime area. A path is the sequence of its components; a destination
\* whose last component is empty ends in '/'. fs.at gives what each destination
\* under the working directory holds, oldest first: the symlink of an
\* unsandboxed app, the bind mounts stacked there for a sandboxed one.
LibC == <<"lib", "c">>
AppC == <<"app", "read-only", "c">>
ProcDir == <<"proc">>
Srcs == {LibC, AppC, ProcDir}
S_ISDIR(src) == src = ProcDir

FileLink(src, dest) == [kind |-> "file", src |-> src, dest |-> dest]
DirLink(src, dest) == [kind |-> "dir", src |-> src, dest |-> dest]

\* The links SetupAppArea makes for every sandboxed app.
DefaultLinks == <<FileLink(LibC, <<"lib", "">>)>>

\* The links a config asks for (its lib and bin trees, its bundled and required
\* files and directories), in the order SetupAppArea walks them.
LinkCfgs == {<<>>,
             <<FileLink(AppC, <<"bin", "">>)>>,
             <<FileLink(AppC, <<"lib", "">>)>>,
             <<FileLink(AppC, <<"bin", "">>), DirLink(ProcDir, <<"proc">>)>>,
             <<FileLink(LibC, <<"bin", "c">>), FileLink(AppC, <<"bin", "">>)>>,
             <<FileLink(ProcDir, <<"proc">>)>>}

GetAbsDestPath(dest, src) ==
    IF dest[Len(dest)] = ""
    THEN SubSeq(dest, 1, Len(dest) - 1) \o <<le_path_GetBasenamePtr(src)>>
    ELSE dest

RECURSIVE LinkDests(_, _)
LinkDests(links, i) ==
    IF i > Len(links) THEN {}
    ELSE {GetAbsDestPath(links[i].dest, links[i].src)} \cup LinkDests(links, i + 1)

DestPaths == UNION {LinkDests(links, 1) : links \in LinkCfgs \cup {DefaultLinks}}

\* The inode numbers stat reports for the sources: all different, or the same
\* number for two files (a hard link, or files of two file systems).
InodeMaps == {[s \in Srcs |-> IF s = LibC THEN 1 ELSE IF s = AppC THEN 2 ELSE 3],
              [s \in Srcs |-> IF s = ProcDir THEN 3 ELSE 1]}

FsInit(ino) == [root |-> FALSE, at |-> [d \in DestPaths |-> <<>>], ino |-> ino]

\* A path that names nothing: the target of a dangling symlink.
Nowhere == <<"nowhere">>

\* stat of a destination follows the symlink, or sees the topmost mount; it
\* fails when there is nothing at the destination or at the symlink's target.
DestTarget(fs, destPath) == fs.at[destPath][Len(fs.at[destPath])]
StatFails(fs, destPath) ==
    \/ fs.at[destPath] = <<>>
    \/ DestTarget(fs, destPath) \notin DOMAIN fs.ino
DestIno(fs, destPath) == fs.ino[DestTarget(fs, destPath)]

DoesLinkExist(fs, isSandboxed, src, destPath) ==
    IF StatFails(fs, destPath)
    THEN [exists |-> FALSE, fs |-> fs]
    ELSE IF fs.ino[src] = DestIno(fs, destPath)
    THEN [exists |-> TRUE, fs |-> fs]
    ELSE IF ~isSandboxed
    THEN [exists |-> FALSE, fs |-> [fs EXCEPT !.at[destPath] = <<>>]]
    ELSE [exists |-> FALSE, fs |-> fs]

\* The part CreateDirLink and CreateFileLink share, after their check of the
\* source's type.
CreateLink(fs, isSandboxed, src, dest) ==
    LET destPath == GetAbsDestPath(dest, src)
        seen == DoesLinkExist(fs, isSandboxed, src, destPath)
    IN  IF seen.exists
        THEN [res |-> "LE_OK", fs |-> seen.fs]
        ELSE IF isSandboxed
        THEN [res |-> "LE_OK", fs |-> [seen.fs EXCEPT !.at[destPath] = Append(@, src)]]
        ELSE IF seen.fs.at[destPath] # <<>>
        THEN [res |-> "LE_FAULT", fs |-> seen.fs]
        ELSE [res |-> "LE_OK", fs |-> [seen.fs EXCEPT !.at[destPath] = <<src>>]]

CreateDirLink(fs, isSandboxed, src, dest) ==
    IF ~S_ISDIR(src) THEN [res |-> "LE_FAULT", fs |-> fs]
    ELSE CreateLink(fs, isSandboxed, src, dest)

CreateFileLink(fs, isSandboxed, src, dest) ==
    IF S_ISDIR(src) THEN [res |-> "LE_FAULT", fs |-> fs]
    ELSE CreateLink(fs, isSandboxed, src, dest)

RECURSIVE LinksFrom(_, _, _, _)
LinksFrom(fs, isSandboxed, links, i) ==
    IF i > Len(links) THEN [res |-> "LE_OK", fs |-> fs]
    ELSE LET made == IF links[i].kind = "dir"
                     THEN CreateDirLink(fs, isSandboxed, links[i].src, links[i].dest)
                     ELSE CreateFileLink(fs, isSandboxed, links[i].src, links[i].dest)
         IN  IF made.res # "LE_OK" THEN made
             ELSE LinksFrom(made.fs, isSandboxed, links, i + 1)

SetupAppArea(fs, isSandboxed, links, fail) ==
    IF fail.step = "area"
    THEN [res |-> "LE_FAULT", fs |-> fs]
    ELSE IF isSandboxed
    THEN LinksFrom([fs EXCEPT !.root = TRUE], TRUE, DefaultLinks \o links, 1)
    ELSE LinksFrom(fs, FALSE, links, 1)

\* The pool blocks of one construction: how often each was allocated and released.
Block == [alloc |-> 0, rel |-> 0]
LedgerInit == [app |-> Block, cont |-> [i \in 1..MaxProcs |-> Block],
               proc |-> [i \in 1..MaxProcs |-> Block]]

AppGone == le_mem_ForceAlloc(0)
NoCfg == [sandboxed |-> FALSE, nProcs |-> 0, groups |-> 0, bindings |-> <<>>,
          devices |-> <<>>, links |-> <<>>]
HostOb(op, ret, failed) == [op |-> op, ret |-> ret, failed |-> failed]

HostInit(ino) ==
    [appPtr |-> "NULL", app |-> AppGone, cfg |-> NoCfg, ledger |-> LedgerInit,
     smack |-> {}, limits |-> FALSE, fs |-> FsInit(ino), dead |-> FALSE,
     ob |-> HostOb("none", "none", "none")]

\* DeleteProcContainersList: every container of the list and its process object
\* are released.
RECURSIVE DeleteProcContainersList(_, _)
DeleteProcContainersList(ledger, procsList) ==
    IF procsList = <<>> THEN ledger
    ELSE DeleteProcContainersList(
             [ledger EXCEPT !.proc[Head(procsList)].rel = @ + 1,
                            !.cont[Head(procsList)].rel = @ + 1],
             Tail(procsList))

app_Delete(h) ==
    LET containers == DeleteProcContainersList(
                          DeleteProcContainersList(h.ledger, h.app.procs),
                          h.app.auxProcs)
    IN  [h EXCEPT !.smack = CleanupAppSmackSettings(@, AppName),
                  !.limits = FALSE,
                  !.ledger = [containers EXCEPT !.app.rel = @ + 1],
                  !.appPtr = "NULL",
                  !.app = AppGone,
                  !.cfg = NoCfg,
                  !.ob = HostOb("app_Delete", "void", "none")]

\* The loop of app_Create over the configured processes, from the i-th.
RECURSIVE ProcsFrom(_, _, _, _, _)
ProcsFrom(ledger, app, nProcs, fail, i) ==
    IF i > nProcs THEN [res |-> "LE_OK", ledger |-> ledger, app |-> app]
    ELSE IF fail.step \in {"procPath", "proc"} /\ fail.at = i
    THEN [res |-> "LE_FAULT", ledger |-> ledger, app |-> app]
    ELSE ProcsFrom([ledger EXCEPT !.proc[i].alloc = @ + 1, !.cont[i].alloc = @ + 1],
                   [app EXCEPT !.procs = Append(@, i)], nProcs, fail, i + 1)

\* The exit of app_Create through its label failed.
CreateFailed(h, app, step) ==
    [app_Delete([h EXCEPT !.appPtr = "appPtr", !.app = app])
        EXCEPT !.ob = HostOb("app_Create", "NULL", step)]

app_Create(h, cfg, env) ==
    LET fail == env.fail
        h0 == [h EXCEPT !.cfg = cfg,
                        !.ledger = [LedgerInit EXCEPT !.app.alloc = 1],
                        !.ob = HostOb("app_Create", "appPtr", "none")]
        a0 == [le_mem_ForceAlloc(env.junk) EXCEPT !.sandboxed = cfg.sandboxed]
        ids == CreateUserAndGroups(a0, cfg, fail)
        made == ProcsFrom(h0.ledger, ids.app, cfg.nProcs, fail, 1)
        h1 == [h0 EXCEPT !.ledger = made.ledger]
        h2 == [h1 EXCEPT !.limits = TRUE]
        mac == SetSmackRules(h2.smack, AppName, cfg, env)
        h3 == [h2 EXCEPT !.smack = mac.rules]
        area == SetupAppArea(h3.fs, cfg.sandboxed, cfg.links, fail)
        h4 == [h3 EXCEPT !.fs = area.fs]
    IN  IF fail.step = "cfgPath"
        THEN [h0 EXCEPT !.ledger.app.rel = @ + 1,
                        !.ob = HostOb("app_Create", "NULL", "cfgPath")]
        ELSE IF ids.res # "LE_OK"
        THEN CreateFailed(h0, ids.app, "identity")
        ELSE IF fail.step \in {"installDir", "workingDir"}
        THEN CreateFailed(h0, ids.app, fail.step)
        ELSE IF made.res # "LE_OK"
        THEN CreateFailed(h1, made.app, "proc")
        ELSE IF fail.step = "resLim"
        THEN CreateFailed(h2, made.app, "resLim")
        ELSE IF mac.res = "FATAL"
        THEN [h3 EXCEPT !.appPtr = "appPtr", !.app = made.app, !.dead = TRUE,
                        !.ob = HostOb("app_Create", "FATAL", "none")]
        ELSE IF mac.res # "LE_OK"
        THEN CreateFailed(h3, made.app, "mac")
        ELSE IF area.res # "LE_OK"
        THEN CreateFailed(h4, made.app, "area")
        ELSE [h4 EXCEPT !.appPtr = "appPtr", !.app = made.app]

\* What the environment of one app_Create does: the step that fails, what the
\* pool block held, what the dead iterator does.
LoopSteps == {"groupName", "group", "procPath", "proc", "device"}
Fails == {[step |-> s, at |-> 1] : s \in FailSteps}
             \cup {[step |-> s, at |-> 2] : s \in LoopSteps}
CreateEnvs(cfg, fails, junks) ==
    [fail : fails, junk : junks,
     dead : IF cfg.bindings = <<>> THEN DeadIterOutcomes ELSE {"fails"}]

GroupCounts == 0..(LIMIT_MAX_NUM_SUPPLEMENTARY_GROUPS + 1)

\* The configs of the app: sandboxed and the process list are those of the app
\* the lifecycle is about.
AppCfgs(groups, bindings, devices, links) ==
    [sandboxed : {sandboxed}, nProcs : {Len(procs)}, groups : groups,
     bindings : bindings, devices : devices, links : links]

CreateWith(cfgs, fails, junks) ==
    /\ host.appPtr = "NULL"
    /\ ~host.dead
    /\ \E cfg \in cfgs :
       \E env \in CreateEnvs(cfg, fails, junks) :
        /\ host' = app_Create(host, cfg, env)
        /\ \A d \in DestPaths : Len(host'.fs.at[d]) <= MaxMounts
    /\ UNCHANGED <<appVars, calls, started, thr, last>>

\* The Supervisor creates the app object from its config.
Create ==
    CreateWith(AppCfgs(GroupCounts, BindingCfgs, DeviceCfgs, {<<>>}),
               Fails, JunkCounts)

\* The Supervisor creates the app object of a config with links.
CreateArea ==
    CreateWith(AppCfgs({0}, {<<"srvA">>}, {<<>>}, LinkCfgs),
               {NoFail, [step |-> "area", at |-> 1]}, {0})

\* The Supervisor deletes the app object.
Delete ==
    /\ host.appPtr # "NULL"
    /\ ~host.dead
    /\ host' = app_Delete(host)
    /\ UNCHANGED <<appVars, calls, started, thr, last>>

----------------------------------------------------------------------------
\* The thread library (thread.c).  The main thread of the process creates and
\* starts threads and calls the API on their references; each started thread runs
\* its main function and then its cleanup.

MaxThreads == 2    \* threads the main thread creates
MaxDtors == 2      \* destructor objects allocated from DestructorPool

TIds == 1..MaxThreads
DIds == 1..MaxDtors

\* The thread object thread_Init creates for the thread that runs it.
MainThread == 0

\* A block of ThreadPool that CreateThread has not handed out yet.
NoThreadObj ==
    [alloc |-> FALSE, released |-> 0, state |-> "NONE", isJoinable |-> FALSE,
     destructorList |-> <<>>, threadHandle |-> 0,
     priority |-> "NORMAL", policy |-> "SCHED_OTHER", stackSize |-> "default"]

\* A block of DestructorPool that AddDestructor has not handed out yet.
NoDestructor ==
    [alloc |-> FALSE, released |-> 0, threadPtr |-> 0, destructor |-> "NULL",
     context |-> 0, runs |-> 0, ranWith |-> 0]

\* The pthread behind threadHandle: where it stands, which way it left its main
\* function, whether a cancellation request is pending, its result value.
NoPThread == [pc |-> "none", path |-> "none", cancel |-> FALSE, result |-> "none"]

NoCall == [op |-> "none", t |-> 0, found |-> FALSE, isJoinable |-> FALSE]
NoRet == [op |-> "none", t |-> 0, by |-> 0, res |-> "none", val |-> "none"]

\* One entry of the record of what a thread's cleanup did.
Ev(e) == [ev |-> e, d |-> 0, ctx |-> 0]

\* The context pointer the caller registers with its d-th destructor.
Context(d) == 100 + d

\* thread_Init: the pools, the reference map, and the main thread's object,
\* which CreateThread has given a safe reference and queued on ThreadObjList,
\* counting the change.
thread_Init ==
    [obj |-> [t \in TIds |-> NoThreadObj],
     Mutex |-> "free",
     ThreadRefMap |-> {MainThread},
     ThreadObjList |-> <<MainThread>>,
     ThreadObjListChangeCount |-> 1,
     dtor |-> [d \in DIds |-> NoDestructor],
     run |-> [t \in TIds |-> NoPThread],
     log |-> [t \in TIds |-> <<>>],
     call |-> NoCall,
     ret |-> NoRet,
     uaf |-> FALSE,
     fatal |-> FALSE]

\* The return of an API function.
Return(h, op, t, by, res, val) ==
    [h EXCEPT !.ret = [op |-> op, t |-> t, by |-> by, res |-> res, val |-> val]]

\* The main thread has left the API function it was in.
CallOver(h) == [h EXCEPT !.call = NoCall]

\* LE_FATAL: the process exits.
Fatal(h, op, t, by) ==
    [Return(h, op, t, by, "FATAL", "none") EXCEPT !.fatal = TRUE]

\* An access to a field of thread object t through a pointer taken earlier.
Deref(h, t) == [h EXCEPT !.uaf = @ \/ ~h.obj[t].alloc]

\* The module's mutex.
Lock(h) == [h EXCEPT !.Mutex = "locked"]
Unlock(h) == [h EXCEPT !.Mutex = "free"]

\* le_ref_Lookup(ThreadRefMap, ref)
le_ref_Lookup(h, t) == IF t \in h.ThreadRefMap THEN t ELSE 0

\* The next free block of ThreadPool, of DestructorPool (0: the model's pool is
\* used up).
FreeThread(h) ==
    IF \E t \in TIds : h.obj[t].state = "NONE"
    THEN CHOOSE t \in TIds : h.obj[t].state = "NONE"
                             /\ \A u \in 1..(t - 1) : h.obj[u].state # "NONE"
    ELSE 0

FreeDestructor(h) ==
    IF \E d \in DIds : h.dtor[d].threadPtr = 0
    THEN CHOOSE d \in DIds : h.dtor[d].threadPtr = 0
                             /\ \A e \in 1..(d - 1) : h.dtor[e].threadPtr # 0
    ELSE 0

\* AddDestructor with le_dls_Queue in the place of le_dls_Stack.
AddDestructorAtTail(h, t, d, destructor, context) ==
    [h EXCEPT !.dtor[d] = [NoDestructor EXCEPT !.alloc = TRUE, !.threadPtr = t,
                                               !.destructor = destructor,
                                               !.context = context],
              !.obj[t].destructorList = Append(@, d)]

\* AddDestructor: the new object is pushed on the head of the thread's list.
AddDestructor(h, t, d, destructor, context) ==
    [h EXCEPT !.dtor[d] = [NoDestructor EXCEPT !.alloc = TRUE, !.threadPtr = t,
                                               !.destructor = destructor,
                                               !.context = context],
              !.obj[t].destructorList = <<d>> \o @]

\* DeleteThread: the thread object goes back to ThreadPool.
DeleteThread(h, t) ==
    [h EXCEPT !.obj[t].alloc = FALSE, !.obj[t].released = @ + 1]

\* The locked section without le_ref_DeleteRef.
Unregister_KeepRef(h, t) ==
    [h EXCEPT !.ThreadObjList = RemoveFromList(@, t)]

\* The locked section without the count of the change.
Unregister_NoCount(h, t) ==
    Unlock([Lock(h) EXCEPT !.ThreadRefMap = @ \ {t},
                           !.ThreadObjList = RemoveFromList(@, t)])

\* The locked section that CleanupThread and le_thread_Join share: the safe
\* reference is deleted, the change is counted and the object leaves
\* ThreadObjList.
Unregister(h, t) ==
    Unlock([Lock(h) EXCEPT !.ThreadRefMap = @ \ {t},
                           !.ThreadObjListChangeCount = @ + 1,
                           !.ThreadObjList = RemoveFromList(@, t)])

\* CreateThread: a NEW, non-joinable object; under the mutex it gets its safe
\* reference, the change is counted and it is queued on ThreadObjList.
CreateThread(h, t) ==
    LET new == [h EXCEPT !.obj[t] = [NoThreadObj EXCEPT !.alloc = TRUE, !.state = "NEW"]]
    IN  Unlock([Lock(new) EXCEPT !.ThreadRefMap = @ \cup {t},
                                 !.ThreadObjListChangeCount = @ + 1,
                                 !.ThreadObjList = Append(@, t)])

le_thread_Create(h, t) == CreateThread(h, t)

\* le_thread_RemoveDestructor called by thread t on destructor reference x.
le_thread_RemoveDestructor(h, t, x) ==
    IF InList(h.obj[t].destructorList, x)
    THEN [h EXCEPT !.obj[t].destructorList = RemoveFromList(@, x),
                   !.dtor[x].alloc = FALSE,
                   !.dtor[x].released = @ + 1]
    ELSE h

\* The user's destructor function of object d, called with ctx by thread t: it
\* may pass one destructor reference x to le_thread_RemoveDestructor (0: none).
CallDestructor(h, t, d, ctx, x) ==
    LET called == [h EXCEPT !.dtor[d].runs = @ + 1,
                            !.dtor[d].ranWith = ctx,
                            !.log[t] = Append(@, [ev |-> "destructor", d |-> d, ctx |-> ctx])]
    IN  IF x = 0 THEN called ELSE le_thread_RemoveDestructor(called, t, x)

\* The start of CleanupThread: the state becomes DYING.
CleanupBegin(h, t) ==
    [h EXCEPT !.obj[t].state = "DYING",
              !.log[t] = Append(@, Ev("DYING"))]

\* One turn of CleanupThread's loop: the head of the list is popped, its function
\* (unless NULL) is called with its context, the object is released.
CleanupDestructor(h, t, x) ==
    LET d == Head(h.obj[t].destructorList)
        popped == [h EXCEPT !.obj[t].destructorList = Tail(@)]
        ran == IF h.dtor[d].destructor # "NULL"
               THEN CallDestructor(popped, t, d, h.dtor[d].context, x)
               ELSE popped
    IN  [ran EXCEPT !.dtor[d].alloc = FALSE, !.dtor[d].released = @ + 1]

\* The rest of CleanupThread once the list is empty: the event loop's and the
\* timers' thread-specific parts are torn down; a non-joinable thread then deletes
\* its safe reference, leaves ThreadObjList and releases its object.
CleanupRest(h, t) ==
    LET torn == [h EXCEPT !.log[t] = @ \o <<Ev("event_DestructThread"),
                                            Ev("timer_DestructThread")>>]
    IN  IF ~torn.obj[t].isJoinable
        THEN [DeleteThread(Unregister(torn, t), t)
                EXCEPT !.log[t] = @ \o <<Ev("le_ref_DeleteRef"), Ev("le_dls_Remove"),
                                         Ev("DeleteThread")>>]
        ELSE torn

\* The thread is over: pthread_join can return its result.
Finished(h, t) == [h EXCEPT !.run[t].pc = "done"]

\* PThreadStartRoutine after mainFunc returned: pthread_cleanup_pop(1) removes the
\* handler and calls it, with cancellation still enabled.  pthread_exit and the
\* acting on a cancellation request call the handler with cancellation disabled.
LeaveMain(h, t, path, result) ==
    CleanupBegin([h EXCEPT !.run[t].pc = "cleanup", !.run[t].path = path,
                           !.run[t].result = result], t)

\* A cancellation request acted on inside the handler that pthread_cleanup_pop(1)
\* called: in the destructor at the head of the list, or in the teardown functions
\* ("event": before event_DestructThread did its work, "timer": after it).  No
\* handler is registered any more: the thread ends there.
CancelInCleanup(h, t, at) ==
    LET cut == IF h.obj[t].destructorList # <<>>
               THEN LET d == Head(h.obj[t].destructorList)
                    IN  CallDestructor([h EXCEPT !.obj[t].destructorList = Tail(@)],
                                       t, d, h.dtor[d].context, 0)
               ELSE IF at = "timer"
               THEN [h EXCEPT !.log[t] = Append(@, Ev("event_DestructThread"))]
               ELSE h
    IN  Finished([cut EXCEPT !.run[t].result = "PTHREAD_CANCELED"], t)

\* le_thread_SetJoinable: the lookup under the mutex, then the checks and the
\* write through the pointer.
SetJoinableLookup(h, t) ==
    [h EXCEPT !.call = [NoCall EXCEPT !.op = "le_thread_SetJoinable", !.t = t,
                                      !.found = le_ref_Lookup(h, t) # 0]]

SetJoinableRest(h) ==
    LET t == h.call.t
        op == "le_thread_SetJoinable"
    IN  CallOver(IF ~h.call.found THEN Fatal(h, op, t, MainThread)
                 ELSE IF ~h.obj[t].alloc \/ h.obj[t].state # "NEW"
                 THEN Fatal(Deref(h, t), op, t, MainThread)
                 ELSE [h EXCEPT !.obj[t].isJoinable = TRUE])

\* The priorities a caller asks for: one of SCHED_OTHER, one of the real-time
\* range, one outside every range.
Priorities == {"IDLE", "RT_HIGHEST", "OUT_OF_RANGE"}
IsRealTime(priority) == priority \in {"RT_LOWEST", "RT_HIGHEST"}

\* SetSchedPolicyAttr: fatal unless the thread is NEW.
SetSchedPolicyAttr(h, t, policy, op) ==
    IF h.obj[t].state # "NEW" THEN Fatal(h, op, t, MainThread)
    ELSE [h EXCEPT !.obj[t].policy = policy]

\* le_thread_SetPriority: a priority outside the ranges is turned down before
\* the state of the thread is looked at.
le_thread_SetPriority(h, t, priority) ==
    LET op == "le_thread_SetPriority"
        set == SetSchedPolicyAttr(h, t, IF IsRealTime(priority) THEN "SCHED_RR"
                                                               ELSE "SCHED_OTHER", op)
    IN  IF le_ref_Lookup(h, t) = 0 THEN Fatal(h, op, t, MainThread)
        ELSE IF priority \in {"NORMAL", "IDLE"} \/ IsRealTime(priority)
        THEN IF set.fatal THEN set
             ELSE [set EXCEPT !.obj[t].priority = priority]
        ELSE Return(h, op, t, MainThread, "LE_OUT_OF_RANGE", "none")

\* The stack sizes a caller asks for: one pthread_attr_setstacksize takes, one
\* under PTHREAD_STACK_MIN, one it turns down for another reason.
StackSizes == {"fits", "small", "odd"}

le_thread_SetStackSize(h, t, size) ==
    LET op == "le_thread_SetStackSize"
    IN  IF le_ref_Lookup(h, t) = 0 \/ h.obj[t].state # "NEW"
        THEN Fatal(h, op, t, MainThread)
        ELSE IF size = "fits"
        THEN [h EXCEPT !.obj[t].stackSize = size]
        ELSE IF size = "small"
        THEN Return(h, op, t, MainThread, "LE_OVERFLOW", "none")
        ELSE Return(h, op, t, MainThread, "LE_OUT_OF_RANGE", "none")

\* le_thread_AddChildDestructor: fatal unless the thread is NEW.
le_thread_AddChildDestructor(h, t, d, destructor) ==
    IF le_ref_Lookup(h, t) = 0 \/ h.obj[t].state # "NEW"
    THEN Fatal(h, "le_thread_AddChildDestructor", t, MainThread)
    ELSE AddDestructor(h, t, d, destructor, Context(d))

\* le_thread_AddDestructor by thread t: fatal unless it is RUNNING.
le_thread_AddDestructor(h, t, d) ==
    IF h.obj[t].state # "RUNNING"
    THEN Fatal(h, "le_thread_AddDestructor", t, t)
    ELSE AddDestructor(h, t, d, "fn", Context(d))

\* A le_thread_Start that does not look at the state of the thread.
le_thread_Start_Again(h, t) ==
    [h EXCEPT !.obj[t].state = "RUNNING",
              !.obj[t].threadHandle = t,
              !.run[t].pc = "main"]

\* le_thread_Start: fatal unless the thread is NEW; then RUNNING, and
\* pthread_create gives the handle.
le_thread_Start(h, t) ==
    IF le_ref_Lookup(h, t) = 0 \/ h.obj[t].state # "NEW"
    THEN Fatal(h, "le_thread_Start", t, MainThread)
    ELSE [h EXCEPT !.obj[t].state = "RUNNING",
                   !.obj[t].threadHandle = t,
                   !.run[t].pc = "main"]

\* pthread_join(handle) called by thread `by`: EDEADLK on the caller's own
\* handle, else it blocks until the thread is over.
pthread_join(h, t, by) ==
    IF by = t THEN "EDEADLK"
    ELSE IF h.run[t].pc = "done" THEN "0"
    ELSE "blocked"

\* le_thread_Join after its Unlock with pthread_join called whatever isJoinable.
JoinRest_JoinFirst(h, t, by, isJoinable) ==
    LET op == "le_thread_Join"
    IN  IF pthread_join(h, t, by) = "EDEADLK"
        THEN Return(h, op, t, by, "LE_DEADLOCK", "none")
        ELSE IF ~isJoinable
        THEN Return(Deref(h, t), op, t, by, "LE_NOT_POSSIBLE", "none")
        ELSE Return(DeleteThread(Unregister(Deref(h, t), t), t), op, t, by,
                    "LE_OK", h.run[t].result)

\* le_thread_Join after its Unlock, with the copy of isJoinable it took.
JoinRest(h, t, by, isJoinable) ==
    LET op == "le_thread_Join"
    IN  IF ~isJoinable
        THEN Return(Deref(h, t), op, t, by, "LE_NOT_POSSIBLE", "none")
        ELSE IF pthread_join(h, t, by) = "0"
        THEN Return(DeleteThread(Unregister(Deref(h, t), t), t), op, t, by,
                    "LE_OK", h.run[t].result)
        ELSE Return(h, op, t, by, "LE_DEADLOCK", "none")

\* le_thread_Join by the main thread up to its Unlock: the lookup, and the
\* copies of the handle and of isJoinable.
JoinLookup(h, t) ==
    IF le_ref_Lookup(Lock(h), t) = 0
    THEN Return(Unlock(Lock(h)), "le_thread_Join", t, MainThread, "LE_NOT_FOUND", "none")
    ELSE Unlock([Lock(h) EXCEPT !.call = [NoCall EXCEPT !.op = "le_thread_Join", !.t = t,
                                                        !.found = TRUE,
                                                        !.isJoinable = h.obj[t].isJoinable]])

\* le_thread_Join called by thread `by` on a reference whose thread cannot end
\* meanwhile (its own).
le_thread_Join(h, t, by) ==
    IF le_ref_Lookup(Lock(h), t) = 0
    THEN Return(Unlock(Lock(h)), "le_thread_Join", t, by, "LE_NOT_FOUND", "none")
    ELSE JoinRest(Unlock(Lock(h)), t, by, h.obj[t].isJoinable)

\* pthread_cancel(handle): 0 and a pending request while the thread exists; on
\* the handle of a detached thread that is over the outcome is not defined
\* (esrch: it reports ESRCH).
pthread_cancel(h, t, esrch) ==
    IF h.run[t].pc = "done" /\ ~h.obj[t].isJoinable
    THEN [h |-> h, err |-> IF esrch THEN "ESRCH" ELSE "0"]
    ELSE [h |-> [h EXCEPT !.run[t].cancel = (h.run[t].pc # "done")], err |-> "0"]

\* le_thread_Cancel: all of it under the mutex.
le_thread_Cancel(h, t, esrch) ==
    IF le_ref_Lookup(h, t) = 0
    THEN Return(h, "le_thread_Cancel", t, MainThread, "LE_NOT_FOUND", "none")
    ELSE LET c == pthread_cancel(h, t, esrch)
         IN  Return(c.h, "le_thread_Cancel", t, MainThread,
                    IF c.err # "0" THEN "LE_NOT_FOUND" ELSE "LE_OK", "none")

\* le_thread_GetName: all of it under the mutex.
le_thread_GetName(h, t) ==
    IF le_ref_Lookup(h, t) = 0
    THEN Return(h, "le_thread_GetName", t, MainThread, "LE_OK", "(dead)")
    ELSE Return(Deref(h, t), "le_thread_GetName", t, MainThread, "LE_OK", "name")

\* thread_GetOtherEventRecPtr: the lookup under the mutex; the pointer into the
\* thread object is returned after the Unlock, to a caller that uses it.
thread_GetOtherEventRecPtr(h, t) ==
    IF le_ref_Lookup(h, t) = 0
    THEN Fatal(h, "thread_GetOtherEventRecPtr", t, MainThread)
    ELSE [h EXCEPT !.call = [NoCall EXCEPT !.op = "UseEventRec", !.t = t,
                                           !.found = TRUE]]

\* The caller of thread_GetOtherEventRecPtr queues an event through the pointer
\* it was given.
UseEventRec(h) ==
    CallOver(Deref(h, h.call.t))

----------------------------------------------------------------------------
\* The state after app_Create on a config with n processes.
InitApp ==
    /\ sandboxed \in BOOLEAN
    /\ state = "STOPPED"
    /\ killTimer = "NULL"
    /\ \E n \in 0..MaxProcs : procs = [i \in 1..n |-> i]
    /\ auxProcs = <<>>
    /\ cont = [c \in CIds |-> CreateProcContainer]
    /\ cgroup = {}
    /\ killed = {}
    /\ forked = {}
    /\ frozen = FALSE
    /\ zombies = {}
    /\ calls = "created"
    /\ started = [res |-> "none", launched |-> 0]
    /\ last = [op |-> "app_Create", res |-> "LE_OK", sig |-> "none", kill |-> "none"]
    /\ thr = thread_Init

Init ==
    /\ InitApp
    /\ host = HostInit(CHOOSE ino \in InodeMaps : ino[LibC] # ino[AppC])

\* The same with either numbering of the inodes.
InitArea ==
    /\ InitApp
    /\ \E ino \in InodeMaps : host = HostInit(ino)

\* An unsandboxed app whose working directory holds symlinks from before: to a
\* file of the system, or to nothing.
StaleLinks == {<<>>, <<LibC>>, <<AppC>>, <<Nowhere>>}

InitRepair ==
    /\ InitApp
    /\ ~sandboxed
    /\ \E ino \in InodeMaps, stale \in [DestPaths -> StaleLinks] :
        host = [HostInit(ino) EXCEPT !.fs.at = stale]

NoFault == [sendFault |-> FALSE]

\* The pids proc_Start handed out during the handler that produced m.
NewPids(m) == m.cgroup \ cgroup

\* How the call sequence create; start; stop goes on with a call of start that
\* made n calls of stop, or with one call of stop.
AfterStart(n) ==
    IF calls = "created" THEN (IF n = 0 THEN "started" ELSE "stopped") ELSE "other"

AfterStop == IF calls = "started" THEN "stopped" ELSE "other"

StartWith(tmpRes, failSet, exited, env) ==
    LET r == app_Start(Cur("app_Start"), tmpRes, failSet, exited, env)
    IN  /\ Commit(r)
        /\ calls' = AfterStart(r.ob.stops)
        /\ started' = IF StartRejected(Cur("app_Start")) THEN started
                      ELSE [res |-> r.ob.res, launched |-> Len(r.ob.launched)]

Start ==
    \E tmpRes \in IF state = "RUNNING" THEN {"ok"} ELSE TmpResults(sandboxed) :
    \E failSet \in IF state = "RUNNING" \/ tmpRes # "ok" THEN {{}}
                    ELSE SUBSET (1..Len(procs)) :
        LET try == app_Start(Cur("app_Start"), tmpRes, failSet, {}, NoFault)
        IN  \E env \in IF try.ob.stops = 0 THEN {NoFault} ELSE KillEnvs :
            \E exited \in IF try.ob.stops = 0 \/ frozen THEN {{}}
                          ELSE SUBSET NewPids(try) :
                StartWith(tmpRes, failSet, exited, env)

StopWith(env) ==
    /\ Commit(app_Stop(Cur("app_Stop"), env))
    /\ calls' = AfterStop
    /\ UNCHANGED started

Stop == \E env \in IF state = "STOPPED" THEN {NoFault} ELSE KillEnvs : StopWith(env)

ExpiryWith(env) ==
    /\ killTimer = "ARMED"
    /\ Commit(HardKillApp([Cur("HardKillApp") EXCEPT !.killTimer = "IDLE"], env))
    /\ UNCHANGED <<calls, started>>

KillTimerExpiry == \E env \in KillEnvs : ExpiryWith(env)

\* wait() hands the Supervisor an exited child and its exit status.
Reaped(pid) == [Cur("app_SigChildHandler") EXCEPT !.zombies = @ \ {pid}]

SigChildWith(pid, status, cfgFa, ok) ==
    /\ pid \in zombies
    /\ Commit(app_SigChildHandler(Reaped(pid), pid, status, cfgFa, ok))
    /\ UNCHANGED <<calls, started>>

SigChild ==
    \E pid \in zombies :
        LET c == FindProcContainer(Reaped(pid), pid)
            faults == c # 0 /\ ~cont[c].stopping
        IN  \E status \in IF faults THEN ExitStatuses ELSE {"ok"} :
            \E cfgFa \in IF faults /\ status # "ok" THEN FaultActions \ {"NONE"}
                         ELSE {"IGNORE"} :
            \E ok \in IF c # 0 /\ (cfgFa = "RESTART_PROC" \/ cont[c].stopHandler # "NULL")
                      THEN BOOLEAN ELSE {TRUE} :
                SigChildWith(pid, status, cfgFa, ok)

WatchdogWith(pid, procAct, appAct) ==
    /\ Commit(app_WatchdogTimeoutHandler(Cur("app_WatchdogTimeoutHandler"),
                                         pid, procAct, appAct))
    /\ UNCHANGED <<calls, started>>

Watchdog ==
    \E pid \in CIds :
    \E procAct \in IF FindProcContainer(Cur("app_WatchdogTimeoutHandler"), pid) = 0
                   THEN {"HANDLED"} ELSE WatchdogActions :
        \E appAct \in IF procAct \in {"NOT_FOUND", "ERROR"} THEN WatchdogActions
                      ELSE {procAct} :
            WatchdogWith(pid, procAct, appAct)

\* The names a client asks for: none, a configured process's, another one.
ProcNames == (0..Len(procs)) \cup {MaxProcs + 1}

CreateProc ==
    \E name \in ProcNames, execPath \in ExecPaths :
    \E ok \in IF execPath = <<>> THEN {TRUE} ELSE BOOLEAN :
        LET m == Cur("app_CreateProc")
            fresh == GetProcContainer(m, name) = 0 /\ execPath # <<>> /\ ok
        IN  /\ fresh => FreeAuxIds(m) # {}
            /\ \E c \in IF fresh THEN FreeAuxIds(m) ELSE {0} :
                Commit(app_CreateProc(m, name, execPath, ok, c))
            /\ UNCHANGED <<calls, started>>

StartProc ==
    \E i \in 1..(Len(procs) + Len(auxProcs)) :
    \E ok \in IF cont[(procs \o auxProcs)[i]].pid = 0 THEN BOOLEAN ELSE {TRUE} :
        /\ Commit(app_StartProc(Cur("app_StartProc"), (procs \o auxProcs)[i], ok))
        /\ UNCHANGED <<calls, started>>

DeleteProc ==
    \E i \in 1..(Len(procs) + Len(auxProcs)) :
        /\ Commit(app_DeleteProc(Cur("app_DeleteProc"), (procs \o auxProcs)[i]))
        /\ UNCHANGED <<calls, started>>

SetProcStopHandler ==
    \E i \in 1..(Len(procs) + Len(auxProcs)), reg \in StopHandlerRegs :
        /\ Commit(app_SetProcStopHandler(Cur("app_SetProcStopHandler"),
                                         (procs \o auxProcs)[i], reg[1], reg[2]))
        /\ UNCHANGED <<calls, started>>

\* A process of the cgroup exits by itself.
ProcExit ==
    \E p \in cgroup \ killed :
        /\ ~frozen
        /\ Commit(EnvExit(Cur("exit"), {p}))
        /\ UNCHANGED <<calls, started>>

\* A process of the cgroup dies of the SIGKILL it was sent.
ProcKilled ==
    \E p \in cgroup \cap killed :
        /\ ~frozen
        /\ Commit(EnvExit(Cur("exit"), {p}))
        /\ UNCHANGED <<calls, started>>

\* A process of the cgroup forks; the child stays in the cgroup.
Fork ==
    /\ cgroup # {}
    /\ ~frozen
    /\ \E p \in ForkPids \ cgroup :
        Commit([Cur("fork") EXCEPT !.cgroup = @ \cup {p}, !.forked = @ \cup {p}])
    /\ UNCHANGED <<calls, started>>

\* The lifecycle of an app that runs its configured processes.
Next ==
    \/ Start
    \/ Stop
    \/ KillTimerExpiry
    \/ SigChild
    \/ Watchdog
    \/ ProcExit
    \/ ProcKilled
    \/ Fork

Spec == Init /\ [][Next]_vars

\* The lifecycle with the ad-hoc process API, of an app whose processes neither
\* fork nor miss their watchdog.
NextAux ==
    \/ Start
    \/ Stop
    \/ KillTimerExpiry
    \/ SigChild
    \/ ProcExit
    \/ ProcKilled
    \/ CreateProc
    \/ StartProc
    \/ DeleteProc

SpecAux == Init /\ [][NextAux]_vars

\* The lifecycle of an app whose client registers external stop handlers on the
\* configured processes and deletes them.
NextExt ==
    \/ Start
    \/ Stop
    \/ SigChild
    \/ ProcExit
    \/ ProcKilled
    \/ SetProcStopHandler
    \/ DeleteProc

SpecExt == Init /\ [][NextExt]_vars

\* The construction and the teardown of the app object, over the configs of its
\* identity and its MAC rules.
NextCreate ==
    \/ Create
    \/ Delete

SpecCreate == Init /\ [][NextCreate]_vars

\* The construction and the teardown of the app object, over the configs of its
\* runtime area.
NextArea ==
    \/ CreateArea
    \/ Delete

SpecArea == InitArea /\ [][NextArea]_vars

\* The same over a working directory that holds stale symlinks.
SpecRepair == InitRepair /\ [][NextArea]_vars

----------------------------------------------------------------------------
\* The thread library at work.  Nothing of the app object is involved.
InitThread ==
    /\ Init
    /\ ~sandboxed
    /\ procs = <<>>

ThrStep(h) ==
    /\ thr' = h
    /\ UNCHANGED <<appVars, calls, started, host, last>>

\* The process has not exited through LE_FATAL.
Live == ~thr.fatal

\* The main thread is not inside an API function.
Idle == Live /\ thr.call = NoCall

\* The thread references the main thread holds, valid or not.
Known == {t \in TIds : thr.obj[t].state # "NONE"}

\* The references of threads it has started, and those no longer in the map.
Started == {t \in Known : t \notin thr.ThreadRefMap \/ thr.obj[t].state # "NEW"}

\* The references of threads it has not started yet.
Unstarted == {t \in Known : t \in thr.ThreadRefMap /\ thr.obj[t].state = "NEW"}

\* The destructor references thread t holds, released or not.
DtorRefs(h, t) == {d \in DIds : h.dtor[d].threadPtr = t}

ThreadCreate ==
    /\ Idle
    /\ FreeThread(thr) # 0
    /\ ThrStep(le_thread_Create(thr, FreeThread(thr)))

ThreadSetJoinable ==
    /\ Idle
    /\ \E t \in Known : ThrStep(SetJoinableLookup(thr, t))

ThreadSetJoinableRest ==
    /\ Live
    /\ thr.call.op = "le_thread_SetJoinable"
    /\ ThrStep(SetJoinableRest(thr))

ThreadAddChildDestructor ==
    /\ Idle
    /\ FreeDestructor(thr) # 0
    /\ \E t \in Unstarted, destructor \in {"fn", "NULL"} :
        ThrStep(le_thread_AddChildDestructor(thr, t, FreeDestructor(thr), destructor))

ThreadStart ==
    /\ Idle
    /\ \E t \in Unstarted : ThrStep(le_thread_Start(thr, t))

ThreadJoin ==
    /\ Idle
    /\ \E t \in Started : ThrStep(JoinLookup(thr, t))

\* pthread_join returns once the thread is over.
ThreadJoinRest ==
    /\ Live
    /\ thr.call.op = "le_thread_Join"
    /\ thr.call.isJoinable => pthread_join(thr, thr.call.t, MainThread) # "blocked"
    /\ ThrStep(CallOver(JoinRest(thr, thr.call.t, MainThread, thr.call.isJoinable)))

ThreadCancel ==
    /\ Idle
    /\ \E t \in Started, esrch \in BOOLEAN : ThrStep(le_thread_Cancel(thr, t, esrch))

ThreadGetName ==
    /\ Idle
    /\ \E t \in Known : ThrStep(le_thread_GetName(thr, t))

ThreadGetOtherEventRecPtr ==
    /\ Idle
    /\ \E t \in Known : ThrStep(thread_GetOtherEventRecPtr(thr, t))

ThreadUseEventRec ==
    /\ Live
    /\ thr.call.op = "UseEventRec"
    /\ ThrStep(UseEventRec(thr))

\* What thread t does in its main function.
InMain(t) == Live /\ thr.run[t].pc = "main"

ThreadAddDestructor(t) ==
    /\ InMain(t)
    /\ FreeDestructor(thr) # 0
    /\ ThrStep(le_thread_AddDestructor(thr, t, FreeDestructor(thr)))

ThreadRemoveDestructor(t) ==
    /\ InMain(t)
    /\ \E x \in DtorRefs(thr, t) :
        /\ InList(thr.obj[t].destructorList, x)
        /\ ThrStep(le_thread_RemoveDestructor(thr, t, x))

ThreadSelfJoin(t) ==
    /\ InMain(t)
    /\ ThrStep(le_thread_Join(thr, t, t))

ThreadReturn(t) ==
    /\ InMain(t)
    /\ ThrStep(LeaveMain(thr, t, "return", "returned"))

ThreadExit(t) ==
    /\ InMain(t)
    /\ ThrStep(LeaveMain(thr, t, "exit", "exited"))

ThreadCancelled(t) ==
    /\ InMain(t)
    /\ thr.run[t].cancel
    /\ ThrStep(LeaveMain(thr, t, "cancel", "PTHREAD_CANCELED"))

\* What thread t does in CleanupThread.
InCleanup(t) == Live /\ thr.run[t].pc = "cleanup"

ThreadCleanupDestructor(t) ==
    /\ InCleanup(t)
    /\ thr.obj[t].destructorList # <<>>
    /\ \E x \in {0} \cup DtorRefs(thr, t) : ThrStep(CleanupDestructor(thr, t, x))

ThreadCleanupRest(t) ==
    /\ InCleanup(t)
    /\ thr.obj[t].destructorList = <<>>
    /\ ThrStep(Finished(CleanupRest(thr, t), t))

ThreadCancelInCleanup(t) ==
    /\ InCleanup(t)
    /\ thr.run[t].path = "return"
    /\ thr.run[t].cancel
    /\ \E at \in {"event", "timer"} : ThrStep(CancelInCleanup(thr, t, at))

\* The API calls of the main thread against the threads' exits.
NextThread ==
    \/ ThreadCreate
    \/ ThreadSetJoinable
    \/ ThreadSetJoinableRest
    \/ ThreadStart
    \/ ThreadJoin
    \/ ThreadJoinRest
    \/ ThreadCancel
    \/ ThreadGetName
    \/ ThreadGetOtherEventRecPtr
    \/ ThreadUseEventRec
    \/ \E t \in TIds : ThreadSelfJoin(t)
    \/ \E t \in TIds : ThreadReturn(t)
    \/ \E t \in TIds : ThreadExit(t)
    \/ \E t \in TIds : ThreadCancelled(t)
    \/ \E t \in TIds : ThreadCleanupRest(t)
    \/ \E t \in TIds : ThreadCancelInCleanup(t)

SpecThread == InitThread /\ [][NextThread]_vars

\* The threads' destructors and the ways a thread ends.
NextDtor ==
    \/ ThreadCreate
    \/ ThreadSetJoinable
    \/ ThreadSetJoinableRest
    \/ ThreadAddChildDestructor
    \/ ThreadStart
    \/ ThreadCancel
    \/ \E t \in TIds : ThreadAddDestructor(t)
    \/ \E t \in TIds : ThreadRemoveDestructor(t)
    \/ \E t \in TIds : ThreadReturn(t)
    \/ \E t \in TIds : ThreadExit(t)
    \/ \E t \in TIds : ThreadCancelled(t)
    \/ \E t \in TIds : ThreadCleanupDestructor(t)
    \/ \E t \in TIds : ThreadCleanupRest(t)
    \/ \E t \in TIds : ThreadCancelInCleanup(t)

SpecDtor == InitThread /\ [][NextDtor]_vars

\* The calls of the main thread on a thread's attributes, on threads it has
\* started as well.
ThreadSetPriority ==
    /\ Idle
    /\ \E t \in Known, priority \in Priorities : ThrStep(le_thread_SetPriority(thr, t, priority))

ThreadSetStackSize ==
    /\ Idle
    /\ \E t \in Known, size \in StackSizes : ThrStep(le_thread_SetStackSize(thr, t, size))

ThreadStartAgain ==
    /\ Idle
    /\ \E t \in Started : ThrStep(le_thread_Start(thr, t))

ThreadAddChildDestructorLate ==
    /\ Idle
    /\ FreeDestructor(thr) # 0
    /\ \E t \in Started :
        ThrStep(le_thread_AddChildDestructor(thr, t, FreeDestructor(thr), "fn"))

\* A destructor of thread t calls le_thread_AddDestructor.
ThreadAddDestructorDying(t) ==
    /\ InCleanup(t)
    /\ thr.obj[t].destructorList # <<>>
    /\ FreeDestructor(thr) # 0
    /\ ThrStep(le_thread_AddDestructor(thr, t, FreeDestructor(thr)))

NextAttr ==
    \/ ThreadCreate
    \/ ThreadSetPriority
    \/ ThreadSetStackSize
    \/ ThreadAddChildDestructor
    \/ ThreadAddChildDestructorLate
    \/ ThreadStart
    \/ ThreadStartAgain
    \/ \E t \in TIds : ThreadAddDestructorDying(t)
    \/ \E t \in TIds : ThreadReturn(t)
    \/ \E t \in TIds : ThreadCleanupDestructor(t)
    \/ \E t \in TIds : ThreadCleanupRest(t)

SpecAttr == InitThread /\ [][NextAttr]_vars

\* The scheduler lets every thread run: one with a cancellation request pending
\* reaches a cancellation point of its main function unless it leaves it first,
\* and one inside CleanupThread goes on.
ThreadFairness ==
    \A t \in TIds :
        /\ WF_vars(ThreadCancelled(t))
        /\ WF_vars(ThreadCleanupDestructor(t))
        /\ WF_vars(ThreadCleanupRest(t))

SpecDtorFair == SpecDtor /\ ThreadFairness

----------------------------------------------------------------------------
\* The handler of the last step has returned with every stop it made completed.
StopCompleted == last.op \in {"app_Start", "app_Stop", "app_SigChildHandler"}

\* C1: when the calls made are create, start and then one stop, and the stop has
\* completed with the freeze cgroup empty (the stop found nothing to signal, or
\* the SIGCHLD handler found the cgroup empty), the app is STOPPED and the kill
\* timer is not armed.
C1_StopCompletes ==
    (calls = "stopped" /\ StopCompleted /\ cgroup = {})
        => (state = "STOPPED" /\ killTimer # "ARMED")

C1_Witness ==
    /\ calls = "stopped"
    /\ last.op = "app_SigChildHandler"
    /\ cgroup = {}
    /\ state = "STOPPED"
    /\ killTimer = "IDLE"

\* C2: kill escalation. A stop() of a RUNNING app whose SIGTERM broadcast reaches
\* at least one process (the cgroup service working) broadcasts SIGTERM, arms the
\* kill timer and leaves the app RUNNING and its processes alive; the kill timer
\* expires only when armed, its one expiry broadcasts SIGKILL to every process of
\* the freeze cgroup and leaves the timer idle; and nothing but that expiry
\* broadcasts SIGKILL.
C2_KillEscalation ==
    [][/\ (last'.op = "app_Stop" /\ state = "RUNNING" /\ cgroup # {}
              /\ last'.kill # "LE_FAULT")
          => /\ last'.sig = "SIGTERM"
             /\ killTimer' = "ARMED"
             /\ state' = "RUNNING"
             /\ cgroup' = cgroup
             /\ killed' = killed
       /\ last'.op = "HardKillApp"
          => /\ killTimer = "ARMED"
             /\ killTimer' = "IDLE"
             /\ last'.sig = "SIGKILL"
             /\ state' = state
             /\ cgroup' = cgroup
             /\ last'.kill # "LE_FAULT" => killed' = cgroup
       /\ last'.sig = "SIGKILL" => last'.op = "HardKillApp"]_vars

C2_Witness ==
    /\ last.op = "HardKillApp"
    /\ last.sig = "SIGKILL"
    /\ last.kill = "LE_OK"
    /\ state = "RUNNING"
    /\ killTimer = "IDLE"
    /\ cgroup # {}
    /\ killed = cgroup

\* C3: the kill timer is never armed while the app is STOPPED.
C3_NoTimerWhileStopped == ~(state = "STOPPED" /\ killTimer = "ARMED")

\* C4: a start() of a RUNNING app returns failure and a stop() of a STOPPED app
\* broadcasts no signal; neither changes the state, the kill timer, a container,
\* the freeze cgroup or whether it is frozen.
C4_RejectedChangesNothing ==
    [][/\ (last'.op = "app_Start" /\ state = "RUNNING")
          => (last'.res = "LE_FAULT" /\ last'.sig = "none" /\ UNCHANGED appVars)
       /\ (last'.op = "app_Stop" /\ state = "STOPPED")
          => (last'.sig = "none" /\ UNCHANGED appVars)]_vars

C4_Witness ==
    /\ last.op = "app_Start"
    /\ last.res = "LE_FAULT"
    /\ started.res = "LE_OK"
    /\ state = "RUNNING"
    /\ cgroup # {}

\* C5: a start() of a STOPPED app whose sandbox /tmp is built tries the configured
\* processes in config order, one after the other. When all start it returns
\* success without a stop. When one fails to start (the executor fails it, or it
\* is still running) it is the last one tried, every process before it was
\* launched, and start() returns failure after one call of stop(), which marks
\* the launched processes as stopping and broadcasts SIGTERM.
C5_StartInOrder ==
    state = "STOPPED" =>
        \A failSet \in SUBSET (1..Len(procs)), exited \in SUBSET CIds, env \in KillEnvs :
            LET r == app_Start(Cur("app_Start"), "ok", failSet, exited, env)
                n == Len(r.ob.tried)
            IN  /\ r.ob.tried = SubSeq(procs, 1, n)
                /\ r.ob.res = "LE_OK"
                   => (n = Len(procs) /\ r.ob.launched = r.ob.tried /\ r.ob.stops = 0)
                /\ r.ob.res # "LE_OK"
                   => /\ r.ob.res = "LE_FAULT"
                      /\ n >= 1
                      /\ (n \in failSet \/ cont[procs[n]].pid # 0)
                      /\ r.ob.launched = SubSeq(procs, 1, n - 1)
                      /\ r.ob.stops = 1
                      /\ r.ob.sigs = <<"SIGTERM">>
                      /\ \A i \in 1..(n - 1) : r.cont[procs[i]].stopping

C5_Witness ==
    /\ Len(procs) = 2
    /\ last.op = "app_Start"
    /\ last.res = "LE_FAULT"
    /\ last.sig = "SIGTERM"
    /\ started.launched = 1
    /\ cont[procs[1]].stopping
    /\ cont[procs[2]].pid = 0

\* C6: a start() that passes the state check and returns failure has called
\* stop() before it returns.
C6_FailedStartStops ==
    [][(last'.op = "app_Start" /\ state = "STOPPED" /\ last'.res = "LE_FAULT")
          => last'.kill # "none"]_vars

C10_WatchdogRestart ==
    [][/\ \A c \in CIds, a \in {"RESTART", "NOT_FOUND"} :
            (InList(procs, c) /\ cont[c].pid # 0) =>
                LET r == app_WatchdogTimeoutHandler(
                             Cur("app_WatchdogTimeoutHandler"), cont[c].pid, a, a)
                IN  /\ r.ob.act = "HANDLED"
                    /\ r.cont[c].stopHandler = "proc_Start"
                    /\ r.cont[c].stopping
                    /\ cont[c].pid \in cgroup => cont[c].pid \in r.killed
                    /\ r.state = state
       /\ \A c \in CIds :
            (/\ calls = "started"
             /\ last'.op = "app_SigChildHandler"
             /\ InList(procs, c)
             /\ cont[c].stopHandler = "proc_Start"
             /\ cont[c].pid \in zombies \ zombies'
             /\ cont'[c].pid \in cgroup')
            => (state = "RUNNING" /\ state' = "RUNNING")]_vars

\* The containers of the configured processes that have a pid.
KnownProcs == {c \in CIds : InList(procs, c) /\ cont[c].pid # 0}

\* What the watchdog handler does for the process of container c.
WatchdogOn(c, procAct, appAct) ==
    app_WatchdogTimeoutHandler(Cur("app_WatchdogTimeoutHandler"), cont[c].pid,
                               procAct, appAct)

\* The handler has scheduled a restart of c: proc_Start installed, the process
\* marked as stopping and sent SIGKILL, HANDLED returned.
RestartScheduled(r, c) ==
    /\ r.ob.res = "LE_OK"
    /\ r.ob.act = "HANDLED"
    /\ r.cont[c].stopHandler = "proc_Start"
    /\ r.cont[c].stopping
    /\ cont[c].pid \in cgroup => cont[c].pid \in r.killed

\* C11: a watchdog timeout whose action is still NOT_FOUND or ERROR after the
\* app-level fallback schedules a restart of the process and returns HANDLED.
C11_UnresolvedRestarts ==
    \A c \in KnownProcs, procAct \in {"NOT_FOUND", "ERROR"}, appAct \in {"NOT_FOUND", "ERROR"} :
        RestartScheduled(WatchdogOn(c, procAct, appAct), c)

\* The handler has left the process of c and its stopHandler alone.
ProcUntouched(r, c) == r.cont = cont /\ r.killed = killed /\ r.cgroup = cgroup

\* The handler has stopped the process of c without touching its stopHandler.
ProcStopped(r, c) ==
    /\ r.cont = [cont EXCEPT ![c].stopping = TRUE]
    /\ r.killed = killed \cup ({cont[c].pid} \cap cgroup)

\* C12: for every known pid the handler does what it does for the process-level
\* watchdog action alone, unless that is NOT_FOUND or ERROR, and then what it does
\* for the app-level action alone; the action so resolved is mapped:
\* IGNORE returns HANDLED and leaves the process and its stopHandler alone, STOP
\* stops the process and returns HANDLED, RESTART_APP, STOP_APP and REBOOT are
\* returned unchanged with the process left alone, HANDLED returns HANDLED; the
\* handler returns LE_OK and the app state stays as it was.
C12_WatchdogMapping ==
    \A c \in KnownProcs, procAct \in WatchdogActions, appAct \in WatchdogActions :
        LET r == WatchdogOn(c, procAct, appAct)
            a == IF procAct \in {"NOT_FOUND", "ERROR"} THEN appAct ELSE procAct
        IN  /\ r.ob.res = "LE_OK"
            /\ r.state = state
            /\ r = WatchdogOn(c, a, a)
            /\ a = "IGNORE" => (r.ob.act = "HANDLED" /\ ProcUntouched(r, c))
            /\ a = "STOP" => (r.ob.act = "HANDLED" /\ ProcStopped(r, c))
            /\ a \in {"RESTART_APP", "STOP_APP", "REBOOT"}
                   => (r.ob.act = a /\ ProcUntouched(r, c))
            /\ a = "HANDLED" => r.ob.act = "HANDLED"

C12_Witness ==
    /\ last.op = "app_WatchdogTimeoutHandler"
    /\ last.res = "LE_OK"
    /\ state = "RUNNING"
    /\ \E c \in KnownProcs :
          /\ cont[c].stopping
          /\ cont[c].stopHandler = "NULL"
          /\ cont[c].pid \in killed

\* C14: when the SIGCHLD of a known pid is handled, the executor's fault action
\* is mapped: NONE calls the stopHandler if one is attached (the process runs
\* again exactly when that call succeeds) and yields STOP_APP when the call
\* fails, else IGNORE; IGNORE yields IGNORE; RESTART_PROC starts the process and
\* yields STOP_APP when the start fails, else IGNORE; RESTART_APP, STOP_APP and
\* REBOOT are yielded unchanged and nothing is started.
C14_FaultActionMapping ==
    \A pid \in zombies :
        LET m == Reaped(pid)
            c == FindProcContainer(m, pid)
        IN  c # 0 =>
            \A status \in ExitStatuses, cfgFa \in FaultActions, ok \in BOOLEAN :
                LET fa == proc_SigChildHandler(m, c, status, cfgFa).fa
                    r == app_SigChildHandler(m, pid, status, cfgFa, ok)
                    restarted == r.cont[c].pid # 0 /\ r.cont[c].pid \in r.cgroup
                    attached == cont[c].stopHandler # "NULL"
                IN  /\ fa = "NONE" /\ attached
                       => /\ restarted <=> ok
                          /\ r.ob.act = IF ok THEN "IGNORE" ELSE "STOP_APP"
                    /\ fa = "NONE" /\ ~attached => (~restarted /\ r.ob.act = "IGNORE")
                    /\ fa = "IGNORE" => (~restarted /\ r.ob.act = "IGNORE")
                    /\ fa = "RESTART_PROC"
                       => /\ restarted <=> ok
                          /\ r.ob.act = IF ok THEN "IGNORE" ELSE "STOP_APP"
                    /\ fa \in {"RESTART_APP", "STOP_APP", "REBOOT"}
                       => (~restarted /\ r.ob.act = fa)

C14_Witness ==
    /\ Len(procs) = 1
    /\ last.op = "app_SigChildHandler"
    /\ zombies = {}
    /\ cont[procs[1]].pid \in cgroup
    /\ cont[procs[1]].stopHandler = "NULL"
    /\ ~cont[procs[1]].stopping
    /\ state = "RUNNING"

\* The calls app_SigChildHandler makes when the process of pid, alive in machine
\* state m, exits with that status and its SIGCHLD is handled next.
ExitEvents(m, pid, status, cfgFa, ok) ==
    LET e == EnvExit(m, {pid})
        h == [e EXCEPT !.zombies = @ \ {pid}, !.ob = Obs("app_SigChildHandler")]
    IN  app_SigChildHandler(h, pid, status, cfgFa, ok).ob.events

\* The external stop handler was called once, with that status and context, and
\* before the executor was asked for the fault action.
ExternCalledOnce(events, handler, status, ctx) ==
    /\ Len(events) = 2
    /\ events[1] = [call |-> handler, status |-> status, ctx |-> ctx]
    /\ events[2].call = "proc_SigChildHandler"

\* C13: when a process whose container has a registered external stop handler
\* exits and its SIGCHLD is handled, the handler is called exactly once, with the
\* exit status and the registered context, before the executor is asked for the
\* fault action, whatever the status and the configured fault action; so it is
\* for a process that exits by itself and for one that exits after stop(), after
\* a watchdog stop and after deleteProc on it while it runs.
C13_ExternStopHandlerCalled ==
    \A c \in CIds :
        (/\ InList(procs \o auxProcs, c)
         /\ cont[c].pid \in cgroup
         /\ cont[c].externStopHandler # "NULL")
        => \A status \in ExitStatuses, cfgFa \in FaultActions, ok \in BOOLEAN,
              env \in KillEnvs :
               LET m == Cur("app_SigChildHandler")
                   expected(ev) == ExternCalledOnce(ev, cont[c].externStopHandler,
                                                    status, cont[c].externContextPtr)
                   after(n) == ExitEvents(n, cont[c].pid, status, cfgFa, ok)
               IN  /\ expected(after(m))
                   /\ expected(after(app_Stop(m, env)))
                   /\ expected(after(app_WatchdogTimeoutHandler(m, cont[c].pid,
                                                                "STOP", "STOP")))
                   /\ expected(after(app_DeleteProc(m, c)))

\* The application object and the operating system's part are the same in r
\* and in m.
SameApp(r, m) == [r EXCEPT !.ob = m.ob] = m

----------------------------------------------------------------------------
\* Every block of the construction that was allocated has been released once.
ReleasedOnce(ledger) ==
    /\ ledger.app.alloc = 1
    /\ ledger.app.rel = 1
    /\ \A i \in 1..MaxProcs :
        /\ ledger.cont[i].rel = ledger.cont[i].alloc
        /\ ledger.proc[i].rel = ledger.proc[i].alloc

\* A step of app_Create in which a creation step failed.
CreateFailedStep ==
    /\ host.appPtr = "NULL"
    /\ host' # host
    /\ host'.ob.op = "app_Create"
    /\ host'.ob.failed # "none"

\* C17: when a step of app_Create fails, app_Create returns NULL, the app object
\* and every process container created so far have been released exactly once,
\* the resource limits are removed and no MAC rule that the creation installed
\* is left.
C17_AllOrNothing ==
    [][CreateFailedStep
        => (/\ host'.ob.ret = "NULL"
            /\ host'.appPtr = "NULL"
            /\ ReleasedOnce(host'.ledger)
            /\ ~host'.limits
            /\ host'.smack \subseteq host.smack)]_vars

\* app_Create has returned the app object.
Created == host.ob.op = "app_Create" /\ host.ob.ret = "appPtr"

\* The count app_GetSupplementaryGroups writes back for a buffer that can hold
\* the whole list.
ReportedGroups ==
    app_GetSupplementaryGroups(host.app, LIMIT_MAX_NUM_SUPPLEMENTARY_GROUPS).numGroups

\* C18: a sandboxed app created on a config with n groups has n <= the maximum,
\* stores the gids of the n groups and reports n supplementary groups; an
\* unsandboxed app has uid = gid = 0 and reports 0 supplementary groups.
C18_GroupCount ==
    Created =>
        IF host.cfg.sandboxed
        THEN /\ host.cfg.groups <= LIMIT_MAX_NUM_SUPPLEMENTARY_GROUPS
             /\ host.app.numSupplementGids = host.cfg.groups
             /\ \A i \in 1..host.cfg.groups :
                    host.app.supplementGids[i] = user_CreateGroup(i)
             /\ ReportedGroups = host.cfg.groups
        ELSE /\ host.app.uid = 0
             /\ host.app.gid = 0
             /\ ReportedGroups = 0

\* The MAC rules in force that name the app's label, as subject or as object.
AppRules ==
    {r \in host.smack : \/ r.subject = smack_GetAppLabel(AppName)
                        \/ r.object = smack_GetAppLabel(AppName)}

\* C19: after app_Delete no MAC rule of the app is in force: not the default
\* rules, not the binding rules in either direction, not the framework's rule
\* on the app, not the device rules.
C19_MacTornDown == host.ob.op = "app_Delete" => AppRules = {}

\* The runtime-area build run once more on the config the app was created on,
\* over the file system the creation left.
SecondBuild == SetupAppArea(host.fs, host.cfg.sandboxed, host.cfg.links, NoFail)

\* C20: after a successful creation, a second run of the runtime-area build on
\* the same config returns LE_OK and leaves the links and mounts as they are,
\* none added, for a sandboxed and for an unsandboxed app.
C20_LinkingIdempotent ==
    Created => (SecondBuild.res = "LE_OK" /\ SecondBuild.fs = host.fs)

\* The file links the configs ask for.
FileLinks ==
    {l \in UNION {{links[i] : i \in 1..Len(links)} : links \in LinkCfgs} :
        l.kind = "file" /\ ~S_ISDIR(l.src)}

\* The link was already there: the destination resolves to the source's inode.
SameInode(fs, l) ==
    /\ ~StatFails(fs, GetAbsDestPath(l.dest, l.src))
    /\ DestIno(fs, GetAbsDestPath(l.dest, l.src)) = fs.ino[l.src]

\* C21: for an unsandboxed app, CreateFileLink on a destination that holds a
\* symlink to another inode or to nothing succeeds and leaves exactly one
\* symlink there, to the source; on a destination that resolves to the source's
\* inode it changes nothing. No other destination is touched.
C21_StaleLinkRepair ==
    ~sandboxed =>
        \A l \in FileLinks :
            LET destPath == GetAbsDestPath(l.dest, l.src)
                r == CreateFileLink(host.fs, FALSE, l.src, l.dest)
            IN  /\ r.res = "LE_OK"
                /\ IF SameInode(host.fs, l)
                   THEN r.fs = host.fs
                   ELSE r.fs = [host.fs EXCEPT !.at[destPath] = <<l.src>>]

\* A step whose handler, in a stop(), broadcast SIGTERM to at least one process.
SoftKillIssued ==
    /\ last'.sig = "SIGTERM"
    /\ last'.kill = "LE_OK"

\* C29: the kill timer is armed exactly while a soft kill issued by stop() is
\* outstanding: it gets armed only by a stop() that signalled processes, such a
\* stop() arms it while the freeze cgroup has members, it stays armed as long as
\* the cgroup has members (also after it expired and hard-killed), and it is
\* not armed once the cgroup is empty.
C29_KillTimerArmed ==
    [][/\ (killTimer # "ARMED" /\ killTimer' = "ARMED") => SoftKillIssued
       /\ (SoftKillIssued /\ cgroup' # {}) => killTimer' = "ARMED"
       /\ (killTimer = "ARMED" /\ cgroup' # {}) => killTimer' = "ARMED"
       /\ cgroup' = {} => killTimer' # "ARMED"]_vars

\* C30: the app becomes STOPPED only in a SIGCHLD handler that finds the freeze
\* cgroup empty, or in a stop request whose broadcast signalled no process; a
\* stop request whose broadcast failed leaves the state as it was.
C30_StoppedOnlyWhenEmpty ==
    [][(state # "STOPPED" /\ state' = "STOPPED")
        => \/ last'.op = "app_SigChildHandler" /\ cgroup' = {}
           \/ last'.op # "app_SigChildHandler" /\ last'.kill = "LE_NOT_FOUND"]_vars

----------------------------------------------------------------------------
\* The thread library.

\* Destructor d's function is called in this step.
RunsNow(d) == thr'.dtor[d].runs > thr.dtor[d].runs

\* C22: a thread's destructors run at its exit, the most recently registered
\* first, each at most once and with the context stored at registration; one
\* that le_thread_RemoveDestructor took off the list before its turn, from the
\* main function or from another destructor during cleanup, never runs; and
\* le_thread_RemoveDestructor called by a destructor on itself changes nothing:
\* no object is released twice and the rest of the list is as it was.
C22_DestructorsLifo ==
    [][/\ \A d \in DIds :
            /\ thr'.dtor[d].runs <= 1
            /\ thr'.dtor[d].released <= 1
            /\ RunsNow(d) =>
                LET t == thr.dtor[d].threadPtr
                IN  /\ t # 0
                    /\ thr'.obj[t].state = "DYING"
                    /\ InList(thr.obj[t].destructorList, d)
                    /\ \A e \in DIds :
                          InList(thr.obj[t].destructorList, e) => e <= d
                    /\ thr'.dtor[d].ranWith = thr.dtor[d].context
                    /\ thr'.dtor[d].ranWith = Context(d)
       /\ \A t \in TIds :
            (thr.run[t].pc = "cleanup" /\ thr.obj[t].destructorList # <<>>)
            => CleanupDestructor(thr, t, Head(thr.obj[t].destructorList))
               = CleanupDestructor(thr, t, 0)]_vars

\* A thread is over whose two destructors ran, the second registered first.
C22_Witness ==
    \E t \in TIds :
        /\ thr.run[t].pc = "done"
        /\ \E i, j \in 1..Len(thr.log[t]) :
            /\ i < j
            /\ thr.log[t][i] = [ev |-> "destructor", d |-> 2, ctx |-> Context(2)]
            /\ thr.log[t][j] = [ev |-> "destructor", d |-> 1, ctx |-> Context(1)]

\* What CleanupThread does after the destructors, for a thread that is joinable
\* or not.
CleanupTail(isJoinable) ==
    <<Ev("event_DestructThread"), Ev("timer_DestructThread")>>
    \o (IF isJoinable THEN <<>>
        ELSE <<Ev("le_ref_DeleteRef"), Ev("le_dls_Remove"), Ev("DeleteThread")>>)

\* Thread t's cleanup ran once, all of it and in order, and left no destructor.
CleanupComplete(t) ==
    LET log == thr.log[t]
        tail == CleanupTail(thr.obj[t].isJoinable)
        n == Len(log) - Len(tail)
    IN  /\ n >= 1
        /\ log[1] = Ev("DYING")
        /\ \A i \in 2..n : log[i].ev = "destructor"
        /\ SubSeq(log, n + 1, Len(log)) = tail
        /\ thr.obj[t].destructorList = <<>>
        /\ \A d \in DtorRefs(thr, t) : thr.dtor[d].released = 1

\* C23: whichever way a started thread ends (its main function returns, it calls
\* le_thread_Exit, it is cancelled at any point after the start), its cleanup
\* handler has run exactly once and in this order: the state becomes DYING, all
\* its destructors run (those the parent added before the start too), the event
\* loop's part is torn down, then the timers', and for a non-joinable thread
\* only: the safe reference is deleted, the object leaves the list and is
\* released.
C23_CleanupOnEveryExit ==
    \A t \in TIds : thr.run[t].pc = "done" => CleanupComplete(t)

\* Thread object t is allocated, on ThreadObjList and reachable by its reference.
Registered(h, t) ==
    /\ h.obj[t].alloc
    /\ InList(h.ThreadObjList, t)
    /\ le_ref_Lookup(h, t) = t

\* Thread object t went back to the pool, once, and nothing leads to it.
Released(h, t) ==
    /\ ~h.obj[t].alloc
    /\ h.obj[t].released = 1
    /\ ~InList(h.ThreadObjList, t)
    /\ le_ref_Lookup(h, t) = 0

\* C24: the object of a joinable thread stays allocated, on the list and
\* reachable by its reference after the thread is over, and is released by a
\* successful join only; the object of a non-joinable thread is released by the
\* thread's own cleanup before the thread is over; either way it is released
\* exactly once.
C24_ReleaseOwnership ==
    [][\A t \in TIds :
        /\ thr'.obj[t].released <= 1
        /\ (thr'.obj[t].isJoinable /\ thr'.obj[t].released > thr.obj[t].released)
            => (/\ thr'.ret = [op |-> "le_thread_Join", t |-> t, by |-> MainThread,
                               res |-> "LE_OK", val |-> thr.run[t].result]
                /\ thr.run[t].pc = "done"
                /\ Registered(thr, t)
                /\ Released(thr', t))
        /\ (~thr'.obj[t].isJoinable /\ thr'.obj[t].released > thr.obj[t].released)
            => (thr.run[t].pc = "cleanup" /\ thr'.run[t].pc = "done")
        /\ (~thr'.obj[t].isJoinable /\ thr'.run[t].pc = "done") => Released(thr', t)
        /\ thr'.obj[t].state \notin {"NONE"} => (Registered(thr', t) \/ Released(thr', t))
       ]_vars

\* The main thread's le_thread_Join returns in this step: from the locked
\* section, or after it.
JoinReturnsEarly ==
    /\ thr.call = NoCall
    /\ thr'.call = NoCall
    /\ thr'.ret # thr.ret
    /\ thr'.ret.op = "le_thread_Join"
    /\ thr'.ret.by = MainThread

JoinReturnsLate ==
    /\ thr.call.op = "le_thread_Join"
    /\ thr'.call = NoCall

\* C25: le_thread_Join returns LE_NOT_FOUND for a reference that is not in the
\* map; LE_NOT_POSSIBLE for a non-joinable thread, which it leaves registered;
\* LE_OK for a joinable thread once it is over, and then it hands out the
\* thread's result value, deletes the reference, takes the object off the list
\* and releases it, so that a second join on the reference returns LE_NOT_FOUND.
C25_JoinResults ==
    [][/\ JoinReturnsEarly
            => (/\ le_ref_Lookup(thr, thr'.ret.t) = 0
                /\ thr'.ret.res = "LE_NOT_FOUND"
                /\ thr'.obj = thr.obj)
       /\ (thr.call = NoCall /\ thr'.call.op = "le_thread_Join")
            => le_ref_Lookup(thr, thr'.call.t) = thr'.call.t
       /\ JoinReturnsLate
            => LET t == thr.call.t
               IN  /\ thr'.ret.op = "le_thread_Join"
                   /\ thr'.ret.t = t
                   /\ IF ~thr.obj[t].isJoinable
                      THEN /\ thr'.ret.res = "LE_NOT_POSSIBLE"
                           /\ thr'.ThreadRefMap = thr.ThreadRefMap
                           /\ thr'.ThreadObjList = thr.ThreadObjList
                           /\ thr'.obj = thr.obj
                      ELSE /\ thr'.ret.res = "LE_OK"
                           /\ thr.run[t].pc = "done"
                           /\ thr'.ret.val = thr.run[t].result
                           /\ Registered(thr, t)
                           /\ Released(thr', t)
                           /\ le_thread_Join(thr', t, MainThread).ret.res = "LE_NOT_FOUND"
      ]_vars

\* A second join on a thread that a first join released returned LE_NOT_FOUND.
C25_Witness ==
    \E t \in TIds :
        /\ thr.obj[t].isJoinable
        /\ thr.obj[t].released = 1
        /\ thr.ret = [op |-> "le_thread_Join", t |-> t, by |-> MainThread,
                      res |-> "LE_NOT_FOUND", val |-> "none"]

\* le_thread_Join called by thread t on its own reference leaves every thread
\* object, the map and the list as they are.
SelfJoinReleasesNothing(t) ==
    LET r == le_thread_Join(thr, t, t)
    IN  /\ r.obj = thr.obj
        /\ r.ThreadRefMap = thr.ThreadRefMap
        /\ r.ThreadObjList = thr.ThreadObjList

CancelReturns(t) ==
    /\ thr.call = NoCall
    /\ thr'.call = NoCall
    /\ thr'.ret # thr.ret
    /\ thr'.ret.op = "le_thread_Cancel"
    /\ thr'.ret.t = t

\* Thread t's cleanup is behind it: no destructor is left, the reference is
\* deleted, the object is off the list.
CleanedUp(t) ==
    /\ thr.obj[t].destructorList = <<>>
    /\ \A d \in DtorRefs(thr, t) : thr.dtor[d].released = 1
    /\ Released(thr, t)

\* C27: le_thread_Cancel returns LE_OK for a reference in the map whose thread
\* was started and LE_NOT_FOUND for one that is not in the map; a thread that
\* nobody cancelled and that has not ended stays registered; and every
\* non-joinable thread with a cancellation request eventually has its
\* destructors run, its reference deleted and its object off the list (unless
\* the process has exited).
C27_CancelCleansUp ==
    /\ [][\A t \in TIds :
            /\ CancelReturns(t)
                => thr'.ret.res = (IF le_ref_Lookup(thr, t) = t THEN "LE_OK"
                                   ELSE "LE_NOT_FOUND")
            /\ (thr'.run[t].pc = "main" /\ ~thr'.run[t].cancel) => Registered(thr', t)
         ]_vars
    /\ \A t \in TIds :
        (thr.run[t].cancel /\ ~thr.obj[t].isJoinable) ~> (CleanedUp(t) \/ thr.fatal)

\* An API function called by the main thread on reference t returns in this step.
ApiReturns(t) ==
    /\ thr'.call = NoCall
    /\ thr'.ret # thr.ret
    /\ thr'.ret.by = MainThread
    /\ thr'.ret.t = t

\* C28: however the main thread's API calls on a reference (join, cancel,
\* getName, the attribute setters, the event-record lookup) interleave with the
\* exit of the thread behind it, no call reads or writes the thread object after
\* its release, and a call that finds the reference gone from the map reports
\* it: LE_NOT_FOUND, the name "(dead)", or a fatal error.
C28_NoUseAfterRelease ==
    [][/\ ~thr'.uaf
       /\ \A t \in TIds :
            (ApiReturns(t) /\ thr.call = NoCall /\ le_ref_Lookup(thr, t) = 0)
            => \/ thr'.ret.res \in {"LE_NOT_FOUND", "FATAL"}
               \/ thr'.ret.val = "(dead)"]_vars

----------------------------------------------------------------------------
\* The stop path of the app, again.

\* What one KillAppProcs call of the given type does to the app as it stands.
KillNow(killType, env) == KillAppProcs(Cur("KillAppProcs"), killType, env).m

\* C31: KillAppProcs freezes the cgroup, marks the processes that are not
\* stopped as stopping, broadcasts SIGTERM (soft) or SIGKILL (hard) to the
\* freeze cgroup and thaws it, and on every return path the cgroup it froze is
\* thawed again: whatever the cgroup service answers, the call leaves the
\* marks of its loop, the one signal of its kill type and a cgroup that is not
\* frozen, and so does every handler that called it.
C31_ThawedOnEveryReturn ==
    [][/\ \A killType \in {"KILL_SOFT", "KILL_HARD"}, env \in KillEnvs :
            /\ KillNow(killType, env).cont = MarkStopping(Cur("KillAppProcs"))
            /\ KillNow(killType, env).ob.sigs = <<KillSig(killType)>>
            /\ state # "STOPPED" => ~KillNow(killType, env).frozen
       /\ last'.sig # "none" => ~frozen']_vars

\* C32: when KillAppProcs runs, every process container of the app, configured
\* or auxiliary, whose executor is not STOPPED gets its internal stopHandler
\* cleared and its executor marked stopping, so that no restart a watchdog
\* timeout scheduled earlier takes place after the stop request.
C32_AllMarkedStopping ==
    \A killType \in {"KILL_SOFT", "KILL_HARD"}, env \in KillEnvs, c \in CIds :
        (/\ state # "STOPPED"
         /\ InList(procs, c) \/ InList(auxProcs, c)
         /\ proc_GetState(cont[c]) # "PROC_STATE_STOPPED")
        => (/\ KillNow(killType, env).cont[c].stopHandler = "NULL"
            /\ KillNow(killType, env).cont[c].stopping)

\* No container of procs or auxProcs runs a process of that pid.
UnknownPid(pid) ==
    \A c \in CIds : (InList(procs, c) \/ InList(auxProcs, c)) => cont[c].pid # pid

\* C33: an event for a pid that matches no container of procs or auxProcs is
\* rejected and touches no process: app_SigChildHandler reports the fault action
\* IGNORE, calls no external and no internal stop handler and starts nothing;
\* app_WatchdogTimeoutHandler returns LE_NOT_FOUND, stops nothing, installs no
\* stopHandler and does not write the action output.
C33_UnknownPidRejected ==
    /\ \A pid \in zombies :
        UnknownPid(pid) =>
            \A status \in ExitStatuses, cfgFa \in FaultActions, ok \in BOOLEAN :
                LET r == app_SigChildHandler(Reaped(pid), pid, status, cfgFa, ok)
                IN  /\ r.ob.act = "IGNORE"
                    /\ r.ob.events = <<>>
                    /\ r.ob.tried = <<>>
                    /\ r.cont = cont
                    /\ r.cgroup = cgroup
                    /\ r.killed = killed
    /\ \A pid \in Pids :
        UnknownPid(pid) =>
            \A procAct \in WatchdogActions, appAct \in WatchdogActions :
                LET r == app_WatchdogTimeoutHandler(Cur("app_WatchdogTimeoutHandler"),
                                                    pid, procAct, appAct)
                IN  /\ r.ob.res = "LE_NOT_FOUND"
                    /\ r.ob.act = "NONE"
                    /\ r.cont = cont
                    /\ r.killed = killed
                    /\ r.state = state

\* The SIGCHLD of a process whose container had been deleted was handled: the
\* app has no container left, and the handler found the cgroup empty.
C33_Witness ==
    /\ last.op = "app_SigChildHandler"
    /\ procs = <<>>
    /\ auxProcs = <<>>
    /\ zombies = {}
    /\ cgroup = {}
    /\ state = "STOPPED"
    /\ \A pid \in Pids : UnknownPid(pid)

\* The containers linked into a list, each as many times as it is linked.
Linked(c) == Cardinality({i \in 1..Len(procs \o auxProcs) : (procs \o auxProcs)[i] = c})

\* C34: procs and auxProcs are disjoint, and a container in use is linked into
\* exactly one of them, once; createProc never adds a container to procs and
\* deleteProc never removes one from procs.
C34_ListsDisjoint ==
    /\ \A c \in CIds : ~(InList(procs, c) /\ InList(auxProcs, c))
    /\ \A c \in CIds : Linked(c) <= 1
    /\ \A c \in CIds : cont[c] # CreateProcContainer => Linked(c) = 1
    /\ \A name \in ProcNames, execPath \in ExecPaths, ok \in BOOLEAN :
        \A c \in FreeAuxIds(Cur("app_CreateProc")) \cup {0} :
            (c = 0 => (GetProcContainer(Cur("app_CreateProc"), name) # 0 \/ execPath = <<>> \/ ~ok))
            => app_CreateProc(Cur("app_CreateProc"), name, execPath, ok, c).procs = procs
    /\ \A c \in CIds :
        Linked(c) = 1 => app_DeleteProc(Cur("app_DeleteProc"), c).procs = procs

\* deleteProc was called on a configured process while an auxiliary container
\* with a running process was on its list too.
C34_Witness ==
    /\ last.op = "app_DeleteProc"
    /\ Len(procs) = MaxProcs
    /\ Len(auxProcs) = 1
    /\ cont[auxProcs[1]].pid # 0
    /\ \E c \in CIds : InList(procs, c) /\ cont[c].stopping /\ cont[c].pid \in killed

\* The iterator calls of a transaction: it is cancelled once, by its last call.
CancelledOnce(ops) ==
    /\ Cardinality({i \in 1..Len(ops) : ops[i] = "le_cfg_CancelTxn"}) = 1
    /\ ops[Len(ops)] = "le_cfg_CancelTxn"

\* C35: the read transaction of the binding-rules walk is cancelled exactly once
\* and its iterator is not used after the cancel; for an app with no bindings the
\* walk returns once the first child is found absent, without reading a binding,
\* and the app_Create that has reached it does not end the Supervisor there.
C35_TxnCancelledOnce ==
    (host.appPtr = "NULL" /\ ~host.dead) =>
        \A cfg \in AppCfgs({0}, BindingCfgs, {<<>>}, {<<>>}) :
        \A env \in CreateEnvs(cfg, {NoFail}, {0}) :
            /\ CancelledOnce(BindingsTxnOps(cfg.bindings, env.dead))
            /\ cfg.bindings = <<>>
               => /\ \A i \in 1..Len(BindingsTxnOps(cfg.bindings, env.dead)) :
                        BindingsTxnOps(cfg.bindings, env.dead)[i] # "le_cfg_GetString"
                  /\ ~app_Create(host, cfg, env).dead

----------------------------------------------------------------------------
\* The states of a thread.

\* Thread object t is as it was, whatever the call returned.
SameThreads(r) ==
    /\ r.obj = thr.obj
    /\ r.dtor = thr.dtor
    /\ r.run = thr.run
    /\ r.ThreadRefMap = thr.ThreadRefMap
    /\ r.ThreadObjList = thr.ThreadObjList

FatalNoChange(r) == r.fatal /\ SameThreads(r)

\* The state of a thread object only steps NONE -> NEW -> RUNNING -> DYING, and
\* its pthread is created once, from NEW.
StateAdvances ==
    \A t \in TIds :
        /\ thr'.obj[t].state # thr.obj[t].state
           => <<thr.obj[t].state, thr'.obj[t].state>>
                \in {<<"NONE", "NEW">>, <<"NEW", "RUNNING">>, <<"RUNNING", "DYING">>}
        /\ (thr'.run[t].pc = "main" /\ thr.run[t].pc # "main")
           => (thr.obj[t].state = "NEW" /\ thr.run[t].pc = "none")

\* On a thread that has been started, the calls that look at the state are fatal
\* and change nothing.
FatalOnStarted(priorities) ==
    \A t \in Started :
        /\ FatalNoChange(le_thread_Start(thr, t))
        /\ \A size \in StackSizes : FatalNoChange(le_thread_SetStackSize(thr, t, size))
        /\ \A priority \in priorities : FatalNoChange(le_thread_SetPriority(thr, t, priority))
        /\ FatalNoChange(SetJoinableRest(SetJoinableLookup(thr, t)))
        /\ \A d \in DIds, destructor \in {"fn", "NULL"} :
            FatalNoChange(le_thread_AddChildDestructor(thr, t, d, destructor))

\* le_thread_AddDestructor, called by the thread itself, is taken while RUNNING
\* and is fatal once DYING.
AddDestructorWhileRunning ==
    \A t \in TIds, d \in DIds :
        /\ (thr.obj[t].alloc /\ thr.obj[t].state = "DYING")
           => FatalNoChange(le_thread_AddDestructor(thr, t, d))
        /\ (thr.obj[t].state = "RUNNING" /\ thr.dtor[d].threadPtr = 0)
           => /\ ~le_thread_AddDestructor(thr, t, d).fatal
              /\ Head(le_thread_AddDestructor(thr, t, d).obj[t].destructorList) = d

\* C36: a thread's state only advances NEW -> RUNNING -> DYING and a thread is
\* started at most once; setPriority, setStackSize, setJoinable, start and
\* addChildDestructor on a started thread are fatal errors that change nothing;
\* addDestructor is accepted from the thread itself while RUNNING and is fatal
\* once DYING.
C36_StateGuards ==
    /\ [](Live => (FatalOnStarted(Priorities) /\ AddDestructorWhileRunning))
    /\ [][StateAdvances]_vars

\* C36 as the code has it: setPriority with a priority outside every range
\* returns LE_OUT_OF_RANGE whatever the state of the thread, and changes nothing;
\* with any other priority it is fatal on a started thread, as the other calls are.
C36_StateGuardsInRange ==
    /\ [](Live => /\ FatalOnStarted(Priorities \ {"OUT_OF_RANGE"})
                  /\ AddDestructorWhileRunning
                  /\ \A t \in TIds \cap thr.ThreadRefMap :
                        LET r == le_thread_SetPriority(thr, t, "OUT_OF_RANGE")
                        IN  /\ ~r.fatal
                            /\ r.ret.res = "LE_OUT_OF_RANGE"
                            /\ SameThreads(r))
    /\ [][StateAdvances]_vars

\* setPriority with a priority outside every range has returned on a thread
\* that was started, and the process goes on.
C36_Witness ==
    /\ Live
    /\ thr.ret.op = "le_thread_SetPriority"
    /\ thr.ret.res = "LE_OUT_OF_RANGE"
    /\ thr.ret.t \in thr.ThreadRefMap
    /\ thr.obj[thr.ret.t].state \in {"RUNNING", "DYING"}

----------------------------------------------------------------------------
\* The registry of thread objects.

\* One thread object has entered or left the list and the map, both at once.
OneChange(h, g) ==
    \E t \in TIds :
        \/ /\ ~InList(h.ThreadObjList, t) /\ t \notin h.ThreadRefMap
           /\ g.ThreadObjList = Append(h.ThreadObjList, t)
           /\ g.ThreadRefMap = h.ThreadRefMap \cup {t}
        \/ /\ InList(h.ThreadObjList, t) /\ t \in h.ThreadRefMap
           /\ g.ThreadObjList = RemoveFromList(h.ThreadObjList, t)
           /\ g.ThreadRefMap = h.ThreadRefMap \ {t}

----------------------------------------------------------------------------
\* The app state against its processes.

\* C38: whenever the app is STOPPED, no container of procs or auxProcs has a
\* running executor and the freeze cgroup is empty.
C38_StoppedMeansNoProcess ==
    state = "STOPPED" =>
        /\ \A c \in CIds :
            (InList(procs, c) \/ InList(auxProcs, c))
            => proc_GetState(cont[c]) # "PROC_STATE_RUNNING"
        /\ cgroup = {}

----------------------------------------------------------------------------
\* The restart a watchdog timeout asks for.

\* This step handles the SIGCHLD of the process of container c, which a watchdog
\* timeout had stopped, and its stopHandler starts the process again.
RestartedByStopHandler(c) ==
    /\ last'.op = "app_SigChildHandler"
    /\ c \in zombies
    /\ InList(procs, c)
    /\ cont[c].stopHandler = "proc_Start"
    /\ cont[c].stopping
    /\ c \in cgroup'

\* The process of container c exiting cleanly now, the handling of its SIGCHLD
\* would start it again.
RestartsOnCleanExit(c) ==
    LET m == EnvExit(Cur("app_SigChildHandler"), {c})
        r == app_SigChildHandler([m EXCEPT !.zombies = @ \ {c}], c, "ok", "IGNORE", TRUE)
    IN  /\ c \in m.zombies
        /\ r.ob.launched # <<>>

\* C39: a restart stopHandler installed by a watchdog timeout causes one restart
\* at most: once the SIGCHLD handling has invoked it and the process runs again,
\* a clean exit of that process, with no watchdog timeout in between, does not
\* start the process again.
C39_RestartOnce ==
    [][\A c \in CIds : RestartedByStopHandler(c) => ~RestartsOnCleanExit(c)']_vars

----------------------------------------------------------------------------
\* The end of a stop.

\* A process that has no SIGKILL pending forks.
ForkAlive == Fork /\ cgroup \ killed # {}

\* The calls create, start and one stop, the cgroup service never failing in
\* the stop and in the hard kill.
StartOnce == calls = "created" /\ Start
StopOnce == calls = "started" /\ state = "RUNNING" /\ StopWith(NoFault)
HardKill == ExpiryWith(NoFault)

NextStop ==
    \/ StartOnce
    \/ StopOnce
    \/ HardKill
    \/ SigChild
    \/ ProcExit
    \/ ProcKilled
    \/ ForkAlive

\* The event loop handles a pending SIGCHLD and the expiry of the armed kill
\* timer, and every process of a thawed cgroup that was sent SIGKILL dies.
StopFairness ==
    /\ WF_vars(SigChild)
    /\ WF_vars(HardKill)
    /\ \A p \in Pids : WF_vars(ProcKilled /\ p \notin cgroup')

SpecStopFair == Init /\ [][NextStop]_vars /\ StopFairness

\* C40: after stop() on a RUNNING app the app eventually reaches STOPPED, when
\* the event loop is fair, every process sent SIGKILL exits and every exit of a
\* top-level process is delivered as SIGCHLD.
C40_StopCompletes ==
    (calls = "stopped" /\ state = "RUNNING") ~> (state = "STOPPED")
====
